---- MODULE Spec2Model ----
(***************************************************************************)
(* A model of the conversation store, the merge engine, the turn           *)
(* processing of both channels, the model round-trip driver and the tool   *)
(* executor of vanilla-chatbot.                                            *)
(*                                                                         *)
(* Specifications:                                                         *)
(*   SpecMerge   the merge engine called sequentially on a small store     *)
(*   Spec        concurrent turns of both channels over the store          *)
(*   SpecDriver  one turn of the round-trip driver with injected failures  *)
(*   SpecTool    toolsExecutor.executeTool on one tool call                *)
(*   SpecContext the context assembly of a turn                            *)
(*   SpecIdent   the identifiers of the stored conversations               *)
(*   SpecSummary one mergeConversations call with its summary generation   *)
(***************************************************************************)
EXTENDS Integers, Sequences, FiniteSets, TLC

VARIABLES store, clock, nextMsgId, nextConvId, mergeLog, merges,
          turns, submitted, session, modelCalls, deletedMsgs,
          drv, tool, ctx, ident, sum, pv

\* the state of the round-trip driver, of the tool executor and of the
\* context assembly, the record of the last call on identifiers, and the
\* merge that may generate a summary, and the last call of
\* generatePhoneVariations, which the specifications of the store leave alone
auxVars == <<drv, tool, ctx, ident, sum, pv>>

storeVars == <<store, clock, nextMsgId, nextConvId, mergeLog, merges, auxVars>>

turnVars == <<turns, submitted, session, modelCalls, deletedMsgs>>

vars == <<store, clock, nextMsgId, nextConvId, mergeLog, merges,
          turns, submitted, session, modelCalls, deletedMsgs, drv, tool, ctx, ident,
          sum, pv>>

(***************************************************************************)
(* Bounds of the model.                                                    *)
(***************************************************************************)
\* conversations ever created in SpecMerge
MaxConvs == 3
\* messages ever appended in SpecMerge
MaxMsgs == 2
\* mergeConversations calls in SpecMerge
MaxMerges == 2
\* turns submitted in Spec
MaxTurns == 3
\* turns in progress at one time in Spec
MaxInFlight == 2

ConvIds == 1..MaxConvs

Roles == {"user", "assistant"}

Contents == {"hi"}

\* absent document (findById returns null)
NoDoc == [absent |-> TRUE]

(***************************************************************************)
(* Messages and their order.                                               *)
(***************************************************************************)
\* models/conversation.js addMessage: the pushed subdocument
NewMessage(id, role, content, ts, channel) ==
    [id |-> id, role |-> role, content |-> content, timestamp |-> ts, channel |-> channel]

\* the (timestamp, content, role) triple by which two messages are duplicates
MsgKey(m) == <<m.timestamp, m.content, m.role>>

KeysOf(msgs) == {MsgKey(msgs[i]) : i \in 1..Len(msgs)}

\* a sort that is not stable: an element is inserted before the elements of
\* its own timestamp
RECURSIVE InsertBeforeEqual(_, _)
InsertBeforeEqual(sorted, m) ==
    IF sorted = <<>> THEN <<m>>
    ELSE IF sorted[Len(sorted)].timestamp < m.timestamp
         THEN Append(sorted, m)
         ELSE Append(InsertBeforeEqual(SubSeq(sorted, 1, Len(sorted) - 1), m),
                     sorted[Len(sorted)])

\* Array.prototype.sort with (a, b) => a.timestamp - b.timestamp, which is
\* stable: an element is inserted after every element that is not later
RECURSIVE InsertByTimestamp(_, _)
InsertByTimestamp(sorted, m) ==
    IF sorted = <<>> THEN <<m>>
    ELSE IF sorted[Len(sorted)].timestamp <= m.timestamp
         THEN Append(sorted, m)
         ELSE Append(InsertByTimestamp(SubSeq(sorted, 1, Len(sorted) - 1), m),
                     sorted[Len(sorted)])

RECURSIVE SortByTimestamp(_)
SortByTimestamp(msgs) ==
    IF msgs = <<>> THEN <<>>
    ELSE InsertByTimestamp(SortByTimestamp(SubSeq(msgs, 1, Len(msgs) - 1)),
                           msgs[Len(msgs)])

IsSortedByTimestamp(msgs) ==
    \A i \in 1..Len(msgs) : \A j \in 1..Len(msgs) :
        i < j => msgs[i].timestamp <= msgs[j].timestamp

(***************************************************************************)
(* Identifiers.                                                            *)
(***************************************************************************)
\* identificationService.PRIORITY.SESSION
PrioritySession == 10
\* identificationService.PRIORITY.PHONE
PriorityPhone == 70

\* "+447911123456", the sender address of the WhatsApp channel
WaPhone == <<"+", "4", "4", "7", "9", "1", "1", "1", "2", "3", "4", "5", "6">>

\* "07911123456", the same number as typed in the browser session
WebPhone == <<"0", "7", "9", "1", "1", "1", "2", "3", "4", "5", "6">>

\* an identifier that is verified whatever its type
InitialIdentifierVerified(type, value) ==
    [type |-> type, value |-> value,
     priority |-> IF type \in {"whatsapp_phone", "phone"} THEN PriorityPhone
                  ELSE PrioritySession,
     verified |-> TRUE]

\* the identifier a conversation is created with
\* (getOrCreateConversationByIdentifier, getOrCreateConversation)
InitialIdentifier(type, value) ==
    [type |-> type, value |-> value,
     priority |-> IF type \in {"whatsapp_phone", "phone"} THEN PriorityPhone
                  ELSE PrioritySession,
     verified |-> (type = "whatsapp_phone")]

\* a conversation's userInfo before updateUserInfo has set it; an absent
\* userId or phone is the empty text
NoUserInfo == [userId |-> <<>>, phone |-> <<>>]

\* a conversation created with no identifier at all
NewConversationBare(type, value) ==
    [identifiers |-> <<>>,
     userInfo |-> NoUserInfo,
     messages |-> <<>>,
     channel |-> IF type = "whatsapp_phone" THEN "whatsapp" ELSE "website",
     previousResponseId |-> <<>>,
     v |-> 0]

\* new Conversation({identifiers: [...], channel, ...}) as stored by save()
NewConversation(type, value) ==
    [identifiers |-> <<InitialIdentifier(type, value)>>,
     userInfo |-> NoUserInfo,
     messages |-> <<>>,
     channel |-> IF type = "whatsapp_phone" THEN "whatsapp" ELSE "website",
     previousResponseId |-> <<>>,
     v |-> 0]

\* the $elemMatch on (type, value) of Conversation.findByIdentifier
HasIdentifier(doc, type, value) ==
    \E k \in 1..Len(doc.identifiers) :
        doc.identifiers[k].type = type /\ doc.identifiers[k].value = value

Stored(c) == store[c] # NoDoc

\* Conversation.findByIdentifier: the stored conversations that match
FindByIdentifier(type, value) ==
    {c \in DOMAIN store : Stored(c) /\ HasIdentifier(store[c], type, value)}

(***************************************************************************)
(* The merge engine (identificationService.mergeConversations).            *)
(***************************************************************************)
\* the candidates in the order of the array Conversation.find returned
RECURSIVE CandidateSeq(_)
CandidateSeq(C) ==
    IF C = {} THEN <<>>
    ELSE LET c == CHOOSE x \in C : \A y \in C : x <= y
         IN <<c>> \o CandidateSeq(C \ {c})

\* allMessages.push(...conversation.messages) over the candidates
RECURSIVE CandidateMessages(_)
CandidateMessages(docs) ==
    IF docs = <<>> THEN <<>>
    ELSE Head(docs).messages \o CandidateMessages(Tail(docs))

\* allMessages = [...primary.messages], the candidates' messages pushed, then sort
MergedMessages(primary, docs) ==
    SortByTimestamp(primary.messages \o CandidateMessages(docs))

\* a forEach that pushes every identifier of the candidate
AddAllIdentifiers(all, ids) == all \o ids

\* the forEach that pushes an identifier only when no (type, value) equal exists
RECURSIVE AddUniqueIdentifiers(_, _)
AddUniqueIdentifiers(all, ids) ==
    IF ids = <<>> THEN all
    ELSE LET id == Head(ids)
             exists == \E k \in 1..Len(all) :
                           all[k].type = id.type /\ all[k].value = id.value
         IN AddUniqueIdentifiers(IF exists THEN all ELSE Append(all, id), Tail(ids))

RECURSIVE MergedIdentifiers(_, _)
MergedIdentifiers(all, docs) ==
    IF docs = <<>> THEN all
    ELSE MergedIdentifiers(AddUniqueIdentifiers(all, Head(docs).identifiers), Tail(docs))

\* a merge that takes the userInfo of every candidate that has a userId
RECURSIVE LastUserInfo(_, _)
LastUserInfo(userInfo, docs) ==
    IF docs = <<>> THEN userInfo
    ELSE LastUserInfo(IF Head(docs).userInfo.userId # <<>>
                      THEN Head(docs).userInfo ELSE userInfo,
                      Tail(docs))

\* "use better user info": the userInfo of a candidate that has a userId is
\* taken while the primary has none
RECURSIVE MergedUserInfo(_, _)
MergedUserInfo(userInfo, docs) ==
    IF docs = <<>> THEN userInfo
    ELSE MergedUserInfo(IF Head(docs).userInfo.userId # <<>> /\ userInfo.userId = <<>>
                        THEN Head(docs).userInfo ELSE userInfo,
                        Tail(docs))

\* the primary as mergeConversations updates it in memory before save()
MergedPrimary(primary, docs) ==
    [primary EXCEPT !.messages = MergedMessages(primary, docs),
                    !.identifiers = MergedIdentifiers(primary.identifiers, docs),
                    !.userInfo = MergedUserInfo(primary.userInfo, docs)]

\* primaryConversation.save(): messages and identifiers are replaced as whole
\* arrays, which the store accepts only for the version that was loaded
SavePrimary(stored, merged) ==
    [merged EXCEPT !.v = stored.v + 1]

\* Conversation.deleteMany({_id: {$in: idsToDelete}})
DeleteMany(st, ids) ==
    [c \in DOMAIN st |-> IF c \in ids THEN NoDoc ELSE st[c]]

NoMerge ==
    [called |-> FALSE, persisted |-> FALSE, threw |-> FALSE, retry |-> FALSE,
     primary |-> 0, candIds |-> {},
     before |-> <<>>, candMsgs |-> <<>>, result |-> <<>>, prevResult |-> <<>>]

(***************************************************************************)
(* SpecMerge: conversations are created, appended to and merged, one call  *)
(* at a time.                                                              *)
(***************************************************************************)
\* the identifier of the k-th sender seen: the WhatsApp sender first, then
\* browser sessions (identifierValue `session_${sessionId}`)
IdentityOf(k) ==
    IF k = 1 THEN <<"whatsapp_phone", WaPhone>> ELSE <<"website_session", <<"session", k>>>>

\* the driver before a message has arrived
IdleDriver ==
    [channel |-> "none", pc |-> "idle", injected |-> FALSE,
     response |-> [id |-> "none", output |-> <<>>, input |-> <<>>, echoed |-> FALSE],
     intents |-> <<>>, results |-> <<>>, requests |-> <<>>, executed |-> <<>>,
     responseText |-> <<>>, replies |-> <<>>,
     previousResponseId |-> "none", tokenBefore |-> "none", appended |-> <<>>,
     backendFailed |-> "none", finalOutput |-> <<>>, settled |-> <<>>]

\* the executor before a tool call has arrived
IdleTool ==
    [pc |-> "idle", name |-> "none", arguments |-> "none", hasConversation |-> FALSE,
     handlerRan |-> FALSE, failure |-> "none", result |-> "none",
     searched |-> FALSE, limit |-> [t |-> "undefined", s |-> <<>>, n |-> 0, integer |-> FALSE]]

\* the context assembly before a conversation has been loaded
IdleContext ==
    [pc |-> "idle", enabled |-> FALSE, hasSummary |-> FALSE, text |-> <<>>,
     lastMessageId |-> 0, messages |-> <<>>, message |-> <<>>,
     messageHistory |-> <<>>, input |-> <<>>]

\* no call on identifiers has been made
NoCall ==
    [op |-> "none", conv |-> 0, type |-> "none", value |-> <<>>, priority |-> 0,
     verified |-> FALSE, persisted |-> FALSE, before |-> <<>>, candidates |-> <<>>,
     calls |-> 0, userInfo |-> NoUserInfo, candUserInfos |-> <<>>]

\* generatePhoneVariations has not been called
NoVariations == [pc |-> "idle", phone |-> <<>>, from |-> <<>>, variations |-> <<>>]

\* null, the value of an absent summary
Null == [absent |-> TRUE]

\* no mergeConversations call that may generate a summary has been made
IdleSummary ==
    [pc |-> "idle", enabled |-> FALSE, backend |-> "none", failure |-> "none",
     before |-> NoDoc, candidates |-> <<>>, primary |-> NoDoc,
     summaryBefore |-> Null, summary |-> Null, attempted |-> FALSE,
     generated |-> Null, stored |-> NoDoc, storedSummary |-> Null,
     candidatesStored |-> FALSE, result |-> Null, messageHistory |-> <<>>]

InitAux ==
    /\ drv = IdleDriver /\ tool = IdleTool /\ ctx = IdleContext /\ ident = NoCall
    /\ sum = IdleSummary
    /\ pv = NoVariations

InitStore ==
    /\ InitAux
    /\ store = [c \in ConvIds |-> NoDoc]
    /\ clock = 1
    /\ nextMsgId = 1
    /\ nextConvId = 1
    /\ mergeLog = NoMerge
    /\ merges = 0

TurnIds == 1..MaxTurns

\* a turn that has not been submitted
IdleTurn ==
    [kind |-> "none", pc |-> "idle", conv |-> 0, caller |-> "none",
     cands |-> <<>>, loaded |-> NoDoc, primary |-> 0, deleted |-> {}, phone |-> <<>>]

InitTurns ==
    /\ turns = [t \in TurnIds |-> IdleTurn]
    /\ submitted = 0
    /\ session = [conversationId |-> 0]
    /\ modelCalls = <<>>
    /\ deletedMsgs = {}

InitMerge == InitStore /\ InitTurns

\* sessionManager.getOrCreateConversationByIdentifier when nothing matches
SMCreate ==
    /\ nextConvId <= MaxConvs
    /\ FindByIdentifier(IdentityOf(nextConvId)[1], IdentityOf(nextConvId)[2]) = {}
    /\ store' = [store EXCEPT ![nextConvId] =
                    NewConversation(IdentityOf(nextConvId)[1], IdentityOf(nextConvId)[2])]
    /\ nextConvId' = nextConvId + 1
    /\ UNCHANGED <<clock, nextMsgId, mergeLog, merges, auxVars, turnVars>>

\* an addMessage that puts the message at the head of the list
PrependMessage(doc, m) ==
    [doc EXCEPT !.messages = <<m>> \o @, !.v = @ + 1]

\* conversationSchema.methods.addMessage: push, then save
AppendMessage(doc, m) ==
    [doc EXCEPT !.messages = Append(@, m), !.v = @ + 1]

\* sessionManager.addMessage(conversationId, role, content, channel); the
\* server clock (new Date()) has gone on by dt since the last append
SMAddMessage(c, role, content, dt) ==
    /\ Stored(c)
    /\ nextMsgId <= MaxMsgs
    /\ clock' = clock + dt
    /\ store' = [store EXCEPT ![c] =
                    AppendMessage(@, NewMessage(nextMsgId, role, content, clock', @.channel))]
    /\ nextMsgId' = nextMsgId + 1
    /\ UNCHANGED <<nextConvId, mergeLog, merges, auxVars, turnVars>>

\* identificationService.mergeConversations(p, candidates), the candidates
\* being the documents a lookup has just found; failure is the store call
\* that rejects: none, the save of the primary, or the deleteMany
SMMerge(p, C, failure) ==
    /\ merges < MaxMerges
    /\ Stored(p)
    /\ C # {} /\ p \notin C /\ \A c \in C : Stored(c)
    /\ LET docs == [i \in 1..Cardinality(C) |-> store[CandidateSeq(C)[i]]]
           merged == MergedPrimary(store[p], docs)
           saved == SavePrimary(store[p], merged)
           st1 == IF failure = "save" THEN store ELSE [store EXCEPT ![p] = saved]
           st2 == IF failure = "none" THEN DeleteMany(st1, C) ELSE st1
       IN /\ store' = st2
          /\ mergeLog' =
                [called |-> TRUE,
                 persisted |-> (failure # "save"),
                 threw |-> (failure # "none"),
                 retry |-> /\ mergeLog.persisted
                           /\ failure # "save"
                           /\ mergeLog.primary = p
                           /\ mergeLog.candIds = C
                           /\ mergeLog.candMsgs = CandidateMessages(docs)
                           /\ mergeLog.result = store[p].messages,
                 primary |-> p,
                 candIds |-> C,
                 before |-> store[p].messages,
                 candMsgs |-> CandidateMessages(docs),
                 result |-> st1[p].messages,
                 prevResult |-> mergeLog.result]
    /\ merges' = merges + 1
    /\ UNCHANGED <<clock, nextMsgId, nextConvId, auxVars, turnVars>>

NextMerge ==
    \/ SMCreate
    \/ \E c \in ConvIds, r \in Roles, t \in Contents, dt \in {0, 1} :
           SMAddMessage(c, r, t, dt)
    \/ \E p \in ConvIds, C \in SUBSET ConvIds, f \in {"none", "save", "delete"} :
           SMMerge(p, C, f)

SpecMerge == InitMerge /\ [][NextMerge]_vars

(***************************************************************************)
(* Claims about the merge engine.                                          *)
(***************************************************************************)
\* no two elements of the list are duplicates of each other
NoDuplicateKeys(msgs) ==
    \A i \in 1..Len(msgs) : \A j \in 1..Len(msgs) :
        i # j => MsgKey(msgs[i]) # MsgKey(msgs[j])

\* two different messages of the list never share a key: whatever duplicates a
\* merge then meets are copies of one message
DistinctMessagesDiffer(msgs) ==
    \A i \in 1..Len(msgs) : \A j \in 1..Len(msgs) :
        msgs[i].id # msgs[j].id => MsgKey(msgs[i]) # MsgKey(msgs[j])

\* C1: after every mergeConversations call that persisted the primary, the
\* primary's message list is the de-duplicated union of the messages of the
\* primary and of all candidates (duplicates by timestamp, content and role),
\* in non-decreasing timestamp order. It is stated for the inputs in which
\* only copies of one message are duplicates, the case of a retried merge.
C1_MergeIsDeduplicatedSortedUnion ==
    (/\ mergeLog.persisted
     /\ DistinctMessagesDiffer(mergeLog.before \o mergeLog.candMsgs)) =>
        /\ KeysOf(mergeLog.result) = KeysOf(mergeLog.before) \cup KeysOf(mergeLog.candMsgs)
        /\ NoDuplicateKeys(mergeLog.result)
        /\ IsSortedByTimestamp(mergeLog.result)

\* C2: a second mergeConversations call with the same primary and the same
\* candidate set leaves the primary with the same message count and the same
\* content as the first call did.
C2_MergeIsIdempotent ==
    mergeLog.retry =>
        /\ Len(mergeLog.result) = Len(mergeLog.prevResult)
        /\ KeysOf(mergeLog.result) = KeysOf(mergeLog.prevResult)

(***************************************************************************)
(* Spec: turns of the WhatsApp sender and of one browser session run       *)
(* concurrently. A handler runs to its next await without interruption;    *)
(* every store or backend operation it awaits is one action.               *)
(***************************************************************************)
DigitChars == {"0", "1", "2", "3", "4", "5", "6", "7", "8", "9"}

\* s.replace(/\D/g, '')
Digits(s) == SelectSeq(s, LAMBDA ch : ch \in DigitChars)

\* the number of trailing digits both lookups match on
MatchLength == 9

\* the digits without the slice
SliceLastWhole(s, n) == s

\* digits.slice(-n)
SliceLast(s, n) == IF Len(s) <= n THEN s ELSE SubSeq(s, Len(s) - n + 1, Len(s))

\* value matches the regular expression `${suffix}$`
EndsWith(value, suffix) ==
    /\ Len(value) >= Len(suffix)
    /\ SubSeq(value, Len(value) - Len(suffix) + 1, Len(value)) = suffix

\* the $elemMatch {type, value: {$regex: `${matchDigits}$`}} of both lookups
HasPhoneEnding(doc, type, matchDigits) ==
    \E k \in 1..Len(doc.identifiers) :
        /\ doc.identifiers[k].type = type
        /\ EndsWith(doc.identifiers[k].value, matchDigits)

\* Conversation.find({_id: {$ne: current}, identifiers: {$elemMatch: ...}})
FindByPhoneEnding(current, type, phone) ==
    {c \in DOMAIN store :
        /\ c # current
        /\ Stored(c)
        /\ HasPhoneEnding(store[c], type, SliceLast(Digits(phone), MatchLength))}

\* the documents a find returned, as the caller holds them
Snapshot(C) ==
    [i \in 1..Cardinality(C) |-> [id |-> CandidateSeq(C)[i], doc |-> store[CandidateSeq(C)[i]]]]

CandDocs(cands) == [i \in 1..Len(cands) |-> cands[i].doc]

\* idsToDelete = conversationsToMerge.map(c => c._id)
CandIds(cands) == {cands[i].id : i \in 1..Len(cands)}

\* a number of seven digits, the fewest the handler of
\* searchPreviousConversations goes on with
ShortPhone == <<"1", "1", "2", "3", "4", "5", "6">>

\* the numbers a user types and the backend passes on as phoneNumber
LookupPhones == {WebPhone, ShortPhone}

\* the identifier of the browser session (createSession)
SessionIdentifier == <<"website_session", <<"session", 1>>>>

\* the identifier a turn resolves its conversation by
TurnIdentifier(kind) ==
    IF kind = "wa" THEN <<"whatsapp_phone", WaPhone>> ELSE SessionIdentifier

TurnChannel(kind) == IF kind = "wa" THEN "whatsapp" ELSE "website"

\* the user's text of turn t and the reply generated for it
TurnText(t) == <<"text", t>>

ReplyText(t) == <<"reply", t>>

MsgIdsOf(doc) == {doc.messages[i].id : i \in 1..Len(doc.messages)}

InitSpec ==
    /\ InitAux
    /\ store = [c \in TurnIds |-> NoDoc]
    /\ clock = 1
    /\ nextMsgId = 1
    /\ nextConvId = 1
    /\ mergeLog = NoMerge
    /\ merges = 0
    /\ InitTurns

SetTurn(t, r) == turns' = [turns EXCEPT ![t] = r]

\* the turns whose handler has not returned
InFlight == {t \in TurnIds : turns[t].pc \notin {"idle", "done", "failed"}}

\* a message arrives (ws.on('message') or the webhook) and its handler runs
\* to the first store call: findById when the session already references a
\* conversation, findByIdentifier otherwise
Submit(kind) ==
    /\ submitted < MaxTurns
    /\ Cardinality(InFlight) < MaxInFlight
    /\ submitted' = submitted + 1
    /\ SetTurn(submitted + 1,
               [IdleTurn EXCEPT !.kind = kind,
                                !.conv = IF kind = "web" THEN session.conversationId ELSE 0,
                                !.pc = IF kind = "web" /\ session.conversationId # 0
                                       THEN "findById" ELSE "findByIdentifier"])
    /\ UNCHANGED <<storeVars, session, modelCalls, deletedMsgs>>

\* getOrCreateConversation: Conversation.findById(session.conversationId)
FindById(t) ==
    /\ turns[t].pc = "findById"
    /\ SetTurn(t, [turns[t] EXCEPT !.pc = IF Stored(turns[t].conv) THEN "addUser"
                                          ELSE "findByIdentifier"])
    /\ UNCHANGED <<storeVars, submitted, session, modelCalls, deletedMsgs>>

\* Conversation.findByIdentifier(type, value): findOne of the matches
FindConversationByIdentifier(t) ==
    /\ turns[t].pc = "findByIdentifier"
    /\ LET F == FindByIdentifier(TurnIdentifier(turns[t].kind)[1], TurnIdentifier(turns[t].kind)[2])
       IN IF F = {}
          THEN /\ SetTurn(t, [turns[t] EXCEPT !.pc = "create"])
               /\ UNCHANGED session
          ELSE \E c \in F :
                  /\ SetTurn(t, [turns[t] EXCEPT !.pc = "addUser", !.conv = c])
                  /\ session' = IF turns[t].kind = "web" THEN [conversationId |-> c]
                                ELSE session
    /\ UNCHANGED <<storeVars, submitted, modelCalls, deletedMsgs>>

\* new Conversation({...}).save()
CreateConversation(t) ==
    /\ turns[t].pc = "create"
    /\ nextConvId \in DOMAIN store
    /\ store' = [store EXCEPT ![nextConvId] =
                    NewConversation(TurnIdentifier(turns[t].kind)[1], TurnIdentifier(turns[t].kind)[2])]
    /\ nextConvId' = nextConvId + 1
    /\ SetTurn(t, [turns[t] EXCEPT !.pc = "addUser", !.conv = nextConvId])
    /\ session' = IF turns[t].kind = "web" THEN [conversationId |-> nextConvId] ELSE session
    /\ UNCHANGED <<clock, nextMsgId, mergeLog, merges, auxVars, submitted, modelCalls, deletedMsgs>>

\* sessionManager.addMessage: findById, then push and save. The save appends
\* to the stored array whatever the loaded copy held, and fails when the
\* document is gone; the call throws when either step finds no document
AddMessage(t, role, content, next) ==
    IF Stored(turns[t].conv)
    THEN /\ clock' = clock + 1
         /\ store' = [store EXCEPT ![turns[t].conv] =
                         AppendMessage(@, NewMessage(nextMsgId, role, content, clock',
                                                     TurnChannel(turns[t].kind)))]
         /\ nextMsgId' = nextMsgId + 1
         /\ SetTurn(t, [turns[t] EXCEPT !.pc = next])
         /\ UNCHANGED <<nextConvId, mergeLog, merges, auxVars>>
    ELSE /\ SetTurn(t, [turns[t] EXCEPT !.pc = "failed"])
         /\ UNCHANGED storeVars

AddUserMessage(t) ==
    /\ turns[t].pc = "addUser"
    /\ AddMessage(t, "user", TurnText(t),
                  IF turns[t].kind = "wa" THEN "autoMerge" ELSE "getConversationById")
    /\ UNCHANGED <<submitted, session, modelCalls, deletedMsgs>>

\* processWhatsAppMessage: the Conversation.find of the auto-merge, which
\* looks for 'phone' identifiers ending in the sender's last nine digits
AutoMergeFind(t) ==
    /\ turns[t].pc = "autoMerge"
    /\ LET C == FindByPhoneEnding(turns[t].conv, "phone", WaPhone)
       IN SetTurn(t, [turns[t] EXCEPT !.cands = Snapshot(C),
                                      !.caller = "auto",
                                      !.pc = IF C = {} THEN "getConversationById"
                                             ELSE "mergeLoad"])
    /\ UNCHANGED <<storeVars, submitted, session, modelCalls, deletedMsgs>>

\* where a turn goes on when mergeConversations has returned or thrown: both
\* callers catch what it throws
AfterMerge(t) == IF turns[t].caller = "auto" THEN "getConversationById" ELSE "followUp"

\* mergeConversations: Conversation.findById(primaryConversationId)
MergeLoadPrimary(t) ==
    /\ turns[t].pc = "mergeLoad"
    /\ SetTurn(t, IF Stored(turns[t].conv)
                  THEN [turns[t] EXCEPT !.loaded = store[turns[t].conv],
                                        !.primary = turns[t].conv,
                                        !.pc = "mergeSave"]
                  ELSE [turns[t] EXCEPT !.pc = AfterMerge(t)])
    /\ UNCHANGED <<storeVars, submitted, session, modelCalls, deletedMsgs>>

\* mergeConversations: primaryConversation.save() of the merged arrays, which
\* is rejected when the stored version is no longer the loaded one
MergeSavePrimary(t) ==
    /\ turns[t].pc = "mergeSave"
    /\ IF Stored(turns[t].conv) /\ store[turns[t].conv].v = turns[t].loaded.v
       THEN /\ store' = [store EXCEPT ![turns[t].conv] =
                            SavePrimary(@, MergedPrimary(turns[t].loaded, CandDocs(turns[t].cands)))]
            /\ SetTurn(t, [turns[t] EXCEPT !.pc = "mergeDelete"])
       ELSE /\ SetTurn(t, [turns[t] EXCEPT !.pc = AfterMerge(t)])
            /\ UNCHANGED store
    /\ UNCHANGED <<clock, nextMsgId, nextConvId, mergeLog, merges, auxVars,
                   submitted, session, modelCalls, deletedMsgs>>

\* mergeConversations: Conversation.deleteMany({_id: {$in: idsToDelete}})
MergeDeleteCandidates(t) ==
    /\ turns[t].pc = "mergeDelete"
    /\ store' = DeleteMany(store, CandIds(turns[t].cands))
    /\ deletedMsgs' = deletedMsgs \cup
          UNION {MsgIdsOf(store[c]) : c \in {d \in CandIds(turns[t].cands) : Stored(d)}}
    /\ SetTurn(t, [turns[t] EXCEPT !.deleted = CandIds(turns[t].cands),
                                   !.pc = AfterMerge(t)])
    /\ UNCHANGED <<clock, nextMsgId, nextConvId, mergeLog, merges, auxVars,
                   submitted, session, modelCalls>>

\* sessionManager.getConversationById, whose result the context is built on;
\* the handler throws on a missing document
GetConversationById(t) ==
    /\ turns[t].pc = "getConversationById"
    /\ SetTurn(t, [turns[t] EXCEPT !.pc = IF Stored(turns[t].conv) THEN "processMessage"
                                          ELSE "failed"])
    /\ UNCHANGED <<storeVars, submitted, session, modelCalls, deletedMsgs>>

\* openaiService.processMessage: the initial request. The backend answers with
\* text or, in a browser turn, with a searchPreviousConversations call for the
\* number the user typed
ProcessMessage(t, wantsTool, phone) ==
    /\ turns[t].pc = "processMessage"
    /\ wantsTool => turns[t].kind = "web"
    /\ ~wantsTool => phone = WebPhone
    /\ modelCalls' = Append(modelCalls, t)
    /\ SetTurn(t, [turns[t] EXCEPT !.pc = IF wantsTool THEN "search" ELSE "addAssistant",
                                   !.phone = IF wantsTool THEN phone ELSE <<>>])
    /\ UNCHANGED <<storeVars, submitted, session, deletedMsgs>>

\* searchPreviousConversations: the Conversation.find for 'whatsapp_phone'
\* identifiers ending in the last nine digits of the argument
SearchPreviousConversations(t) ==
    /\ turns[t].pc = "search"
    /\ LET C == FindByPhoneEnding(turns[t].conv, "whatsapp_phone", turns[t].phone)
       IN SetTurn(t, [turns[t] EXCEPT !.cands = Snapshot(C),
                                      !.caller = "tool",
                                      !.pc = IF C = {} THEN "addIdentifier" ELSE "mergeLoad"])
    /\ UNCHANGED <<storeVars, submitted, session, modelCalls, deletedMsgs>>

\* identifiers.find(id => id.type === type && id.value === value): the index
\* of the first match
FirstIdentifier(identifiers, type, value) ==
    CHOOSE k \in 1..Len(identifiers) :
        /\ identifiers[k].type = type /\ identifiers[k].value = value
        /\ \A j \in 1..(k - 1) :
              ~(identifiers[j].type = type /\ identifiers[j].value = value)

\* an addIdentifier that overwrites the priority and the verified flag of
\* the identifier it finds
AddIdentifierOverwriting(doc, type, value, priority, verified) ==
    IF HasIdentifier(doc, type, value)
    THEN [doc EXCEPT !.identifiers[FirstIdentifier(doc.identifiers, type, value)] =
             [@ EXCEPT !.priority = priority, !.verified = verified]]
    ELSE [doc EXCEPT !.identifiers =
             Append(@, [type |-> type, value |-> value, priority |-> priority,
                        verified |-> verified]),
                     !.v = @ + 1]

\* conversationSchema.methods.addIdentifier: the identifier is pushed unless
\* one with the same type and value exists, whose priority is then raised to
\* the given one when that is greater, and which becomes verified when the
\* call says so
AddIdentifier(doc, type, value, priority, verified) ==
    IF HasIdentifier(doc, type, value)
    THEN [doc EXCEPT !.identifiers[FirstIdentifier(doc.identifiers, type, value)] =
             [@ EXCEPT !.priority = IF priority > @ THEN priority ELSE @,
                       !.verified = @ \/ verified]]
    ELSE [doc EXCEPT !.identifiers =
             Append(@, [type |-> type, value |-> value, priority |-> priority,
                        verified |-> verified]),
                     !.v = @ + 1]

\* searchPreviousConversations when nothing matched: findById, addIdentifier
\* ('phone', phoneNumber, 70, false) and save; a missing document or a failed
\* save is logged and the tool returns all the same
AddPhoneIdentifier(t) ==
    /\ turns[t].pc = "addIdentifier"
    /\ store' = IF Stored(turns[t].conv)
                THEN [store EXCEPT ![turns[t].conv] = AddIdentifier(@, "phone", turns[t].phone, PriorityPhone, FALSE)]
                ELSE store
    /\ SetTurn(t, [turns[t] EXCEPT !.pc = "followUp"])
    /\ UNCHANGED <<clock, nextMsgId, nextConvId, mergeLog, merges, auxVars,
                   submitted, session, modelCalls, deletedMsgs>>

\* openaiService.processFunctionCalls: the follow-up request
FollowUp(t) ==
    /\ turns[t].pc = "followUp"
    /\ SetTurn(t, [turns[t] EXCEPT !.pc = "addAssistant"])
    /\ UNCHANGED <<storeVars, submitted, session, modelCalls, deletedMsgs>>

\* the reply is delivered, then sessionManager.addMessage(id, 'assistant', ...)
AddAssistantMessage(t) ==
    /\ turns[t].pc = "addAssistant"
    /\ AddMessage(t, "assistant", ReplyText(t), "updateResponseId")
    /\ UNCHANGED <<submitted, session, modelCalls, deletedMsgs>>

\* sessionManager.updateResponseId: findByIdAndUpdate, nothing when absent
UpdateResponseId(t) ==
    /\ turns[t].pc = "updateResponseId"
    /\ store' = IF Stored(turns[t].conv)
                THEN [store EXCEPT ![turns[t].conv].previousResponseId = <<"resp", t>>]
                ELSE store
    /\ SetTurn(t, [turns[t] EXCEPT !.pc = "done"])
    /\ UNCHANGED <<clock, nextMsgId, nextConvId, mergeLog, merges, auxVars,
                   submitted, session, modelCalls, deletedMsgs>>

Next ==
    \/ \E kind \in {"wa", "web"} : Submit(kind)
    \/ \E t \in TurnIds : FindById(t)
    \/ \E t \in TurnIds : FindConversationByIdentifier(t)
    \/ \E t \in TurnIds : CreateConversation(t)
    \/ \E t \in TurnIds : AddUserMessage(t)
    \/ \E t \in TurnIds : AutoMergeFind(t)
    \/ \E t \in TurnIds : MergeLoadPrimary(t)
    \/ \E t \in TurnIds : MergeSavePrimary(t)
    \/ \E t \in TurnIds : MergeDeleteCandidates(t)
    \/ \E t \in TurnIds : GetConversationById(t)
    \/ \E t \in TurnIds, wantsTool \in BOOLEAN, phone \in LookupPhones :
           ProcessMessage(t, wantsTool, phone)
    \/ \E t \in TurnIds : SearchPreviousConversations(t)
    \/ \E t \in TurnIds : AddPhoneIdentifier(t)
    \/ \E t \in TurnIds : FollowUp(t)
    \/ \E t \in TurnIds : AddAssistantMessage(t)
    \/ \E t \in TurnIds : UpdateResponseId(t)

Spec == InitSpec /\ [][Next]_vars

(***************************************************************************)
(* Claims about concurrent turns.                                          *)
(***************************************************************************)
\* message k is held by some stored conversation
MessageStored(k) == \E c \in DOMAIN store : Stored(c) /\ k \in MsgIdsOf(store[c])

\* C3: a conversation is deleted only as a merge candidate and only after the
\* primary holding its messages has been persisted: in every reachable state
\* each message of a deleted conversation is present in a stored conversation.
C3_DeletedMessagesAreStored == \A k \in deletedMsgs : MessageStored(k)

\* the turn is inside mergeConversations, between its call and its return
InMerge(t) == turns[t].pc \in {"mergeLoad", "mergeSave", "mergeDelete"}

\* the turn is inside sessionManager.addMessage
InAppend(t) == turns[t].pc \in {"addUser", "addAssistant"}

\* the conversations the merge of turn t reads, writes or deletes
MergeScope(t) == {turns[t].conv} \cup CandIds(turns[t].cands)

AppendsAndMergesExclusive ==
    \A t1 \in TurnIds : \A t2 \in TurnIds \ {t1} :
        InMerge(t1) =>
            /\ InAppend(t2) => turns[t2].conv \notin MergeScope(t1)
            /\ InMerge(t2) => MergeScope(t1) \cap MergeScope(t2) = {}

NoTwoMergesDeleteTheSame ==
    \A t1 \in TurnIds : \A t2 \in TurnIds \ {t1} :
        /\ turns[t1].deleted \cap turns[t2].deleted = {}
        /\ ~(turns[t1].primary \in turns[t2].deleted /\ turns[t2].primary \in turns[t1].deleted)

EveryAppendedMessageStored == \A k \in 1..(nextMsgId - 1) : MessageStored(k)

\* C4: appends and merges that touch one conversation are mutually exclusive,
\* no two merges delete the same candidate or each other's primary, and every
\* message ever appended remains in some stored conversation.
C4_MergesAndAppendsSerialized ==
    /\ AppendsAndMergesExclusive
    /\ NoTwoMergesDeleteTheSame
    /\ EveryAppendedMessageStored

\* the turn whose user text a message carries, 0 for a reply
UserTurnOf(m) == IF m.role = "user" THEN m.content[2] ELSE 0

UserMessagesInSubmissionOrder ==
    \A c \in DOMAIN store : Stored(c) =>
        \A i \in 1..Len(store[c].messages) : \A j \in 1..Len(store[c].messages) :
            LET ti == UserTurnOf(store[c].messages[i])
                tj == UserTurnOf(store[c].messages[j])
            IN (i < j /\ ti # 0 /\ tj # 0 /\ turns[ti].conv = turns[tj].conv) => ti < tj

ModelRequestsInSubmissionOrder ==
    \A i \in 1..Len(modelCalls) : \A j \in 1..Len(modelCalls) :
        (i < j /\ turns[modelCalls[i]].conv = turns[modelCalls[j]].conv) =>
            modelCalls[i] < modelCalls[j]

\* C5: for two turns on one conversation, the order of their user messages
\* in the conversation and the order of their model requests both follow the
\* order in which the turns were submitted.
C5_TurnsKeepSubmissionOrder ==
    /\ UserMessagesInSubmissionOrder
    /\ ModelRequestsInSubmissionOrder

(***************************************************************************)
(* SpecDriver: one turn of processWebSocketMessage or of                   *)
(* processWhatsAppMessage with the round trip to the model backend         *)
(* (openaiService.processMessage, processFunctionCalls,                    *)
(* extractResponseText). Every awaited call of the store, of the backend   *)
(* and of a tool either returns or fails.                                  *)
(***************************************************************************)
\* function-call intents in one reply of the backend
MaxIntents == 2

driverOthers ==
    <<store, clock, nextMsgId, nextConvId, mergeLog, merges, turnVars, tool, ctx, ident, sum,
      pv>>

\* texts are sequences of pieces, the empty text being <<>>
WebFallback == <<"I performed an action but have no further response.">>

WebError == <<"I encountered an error processing your request. Please try again.">>

WaFallback == <<"I processed your request but have no specific response.">>

WaError == <<"I encountered an error processing your message. Please try again.">>

WaSenderIssue == <<"There was an issue processing your sender information.">>

FunctionErrorText == <<"I experienced an error processing your request. Can you please try again?">>

FunctionProcessedText == <<"I've processed your request. Is there anything else you'd like to know?">>

\* the texts a message item of the backend carries: the empty text, a text of
\* white space, a text
ModelTexts == {<<>>, <<" ">>, <<"hello">>}

\* text.trim()
TrimText(text) == SelectSeq(text, LAMBDA piece : piece # " ")

\* the reply without its fallback
OrElseDropped(text, fallback) == text

\* a || b on texts: the empty string is falsy
OrElse(text, fallback) == IF text = <<>> THEN fallback ELSE text

\* items of response.output and of a request's input
MessageItem(text) ==
    [type |-> "message", call_id |-> 0, name |-> "none", text |-> text, output |-> "none"]

\* the tools the intents name: two of the registered tools, and createUser,
\* a tool an extension registers
ToolNameOf(id) ==
    IF id % 3 = 1 THEN "queryKnowledgeBase"
    ELSE IF id % 3 = 2 THEN "createUser"
    ELSE "searchPreviousConversations"

FunctionCallItem(id) ==
    [type |-> "function_call", call_id |-> id, name |-> ToolNameOf(id), text |-> <<>>,
     output |-> "none"]

FunctionCallOutputItem(id, output) ==
    [type |-> "function_call_output", call_id |-> id, name |-> "none", text |-> <<>>,
     output |-> output]

\* {role, content} items: the role stands where the others have their type
RoleItem(role, text) ==
    [type |-> role, call_id |-> 0, name |-> "none", text |-> text, output |-> "none"]

\* processMessage: input = [system prompt, ...history, user message]
InitialInput == <<RoleItem("system", <<"prompt">>), RoleItem("user", <<"question">>)>>

\* the intents with call ids first..last, in this order
CallItems(first, last) == [i \in 1..(last - first + 1) |-> FunctionCallItem(first + i - 1)]

\* replies of the backend to the initial request: an optional message item,
\* then up to MaxIntents function calls
InitialOutputs ==
    {CallItems(1, n) : n \in 0..MaxIntents} \cup
    {<<MessageItem(text)>> \o CallItems(1, n) : text \in ModelTexts, n \in 0..MaxIntents}

\* replies of the backend to the follow-up request; its function call has an
\* id of its own
FollowUpOutputs ==
    {<<>>, <<FunctionCallItem(MaxIntents + 1)>>} \cup
    {<<MessageItem(text)>> : text \in ModelTexts} \cup
    {<<MessageItem(text), FunctionCallItem(MaxIntents + 1)>> : text \in ModelTexts}

\* response.output.filter(item => item.type === "function_call")
FunctionCalls(response) ==
    SelectSeq(response.output, LAMBDA item : item.type = "function_call")

\* response.output && response.output.some(item => item.type === 'function_call')
HasFunctionCalls(response) == FunctionCalls(response) # <<>>

\* the result a tool call leaves in functionResults: what toolExecutor
\* returned, or the JSON of {error: true, message} when it threw
\* "created" and "createdNamed" are the results {success: true} of
\* createUser, the latter with user.firstName
ToolOutcomes == {"plain", "knowledge", "instruction", "created", "createdNamed", "throws"}

ResultEntry(call, outcome) ==
    [call_id |-> call.call_id, name |-> call.name,
     result |-> IF outcome = "throws" THEN "error" ELSE outcome]

\* functionResults.find(r => r.call_id === call_id): the first match or none
\* the place of a result whose tool call has not settled
PendingEntry == [call_id |-> 0, name |-> "none", result |-> "pending"]

\* undefined, as find returns it
NoEntry == [call_id |-> 0, name |-> "none", result |-> "none"]

RECURSIVE FindResult(_, _)
FindResult(results, call_id) ==
    IF results = <<>> THEN NoEntry
    ELSE IF Head(results).call_id = call_id THEN Head(results)
    ELSE FindResult(Tail(results), call_id)

\* the pair without the output of a tool call that threw
PairForSkippingErrors(call, results) ==
    LET entry == FindResult(results, call.call_id)
    IN <<FunctionCallItem(call.call_id)>> \o
       (IF entry = NoEntry \/ entry.result = "error" THEN <<>>
        ELSE <<FunctionCallOutputItem(call.call_id, entry.result)>>)

\* the items pushed for one intent: the function call, then its output when a
\* result entry is found
PairFor(call, results) ==
    LET entry == FindResult(results, call.call_id)
    IN <<FunctionCallItem(call.call_id)>> \o
       (IF entry = NoEntry THEN <<>>
        ELSE <<FunctionCallOutputItem(call.call_id, entry.result)>>)

RECURSIVE PairsFor(_, _)
PairsFor(calls, results) ==
    IF calls = <<>> THEN <<>>
    ELSE PairFor(Head(calls), results) \o PairsFor(Tail(calls), results)

\* the system message pushed for each queryKnowledgeBase result with a context
RECURSIVE KnowledgeItems(_)
KnowledgeItems(results) ==
    IF results = <<>> THEN <<>>
    ELSE (IF Head(results).name = "queryKnowledgeBase" /\ Head(results).result = "knowledge"
          THEN <<RoleItem("system", <<"context">>)>> ELSE <<>>)
         \o KnowledgeItems(Tail(results))

\* the combined system instruction and the user prompt pushed after it
InstructionItems(results) ==
    IF \E i \in 1..Len(results) : results[i].result = "instruction"
    THEN <<RoleItem("system", <<"instruction">>),
           RoleItem("user", <<"Please acknowledge and continue with the conversation.">>)>>
    ELSE <<>>

\* processFunctionCalls: followUpInput
FollowUpInput(response, results) ==
    (IF response.echoed THEN response.input ELSE <<>>)
    \o PairsFor(FunctionCalls(response), results)
    \o KnowledgeItems(results)
    \o InstructionItems(results)

RECURSIVE ConcatText(_)
ConcatText(output) ==
    IF output = <<>> THEN <<>>
    ELSE (IF Head(output).type = "message" THEN Head(output).text ELSE <<>>)
         \o ConcatText(Tail(output))

\* openaiService.extractResponseText: the output_text of the message items;
\* when there is none and response.input holds function_call_output items
\* (none of which has the name getCurrentTime), the generic text
ExtractResponseText(response) ==
    IF response.output = <<>> THEN <<>>
    ELSE LET text == ConcatText(response.output)
         IN IF text = <<>> /\ response.echoed
               /\ \E i \in 1..Len(response.input) : response.input[i].type = "function_call_output"
            THEN FunctionProcessedText
            ELSE text

\* hasUserCreation: a result of createUser with success
HasUserCreation(results) ==
    \E i \in 1..Len(results) :
        /\ results[i].name = "createUser"
        /\ results[i].result \in {"created", "createdNamed"}

FirstName == "Ada"

\* newUserInfo.firstName as the loop over functionResults leaves it: that of
\* the last createUser result with a user, <<>> when there is none
RECURSIVE NewUserFirstName(_)
NewUserFirstName(results) ==
    IF results = <<>> THEN <<>>
    ELSE IF results[Len(results)].name = "createUser"
            /\ results[Len(results)].result = "createdNamed"
         THEN <<FirstName>>
         ELSE NewUserFirstName(SubSeq(results, 1, Len(results) - 1))

\* output.some(item => item.type === 'message' && item.content.some(c =>
\*     c.type === 'output_text' && c.text && c.text.trim() !== ''))
HasOutputText(output) ==
    \E i \in 1..Len(output) :
        output[i].type = "message" /\ TrimText(output[i].text) # <<>>

\* fallbackText of the user-creation fallback
UserCreationFallbackText(firstName) ==
    (IF firstName # <<>>
     THEN <<"Thank you, ">> \o firstName \o <<"! I've successfully created your profile.">>
     ELSE <<"Thank you! I've successfully created your profile.">>)
    \o <<" How else can I assist you today?">>

\* the response processFunctionCalls returns in place of a final response
\* without text after a user creation
UserCreationFallbackResponse(results) ==
    [id |-> "user_creation_fallback",
     output |-> <<MessageItem(UserCreationFallbackText(NewUserFirstName(results)))>>,
     input |-> <<>>, echoed |-> FALSE]

\* a catch block that returns a response without output
ErrorFallbackEmpty ==
    [id |-> "error_fallback", output |-> <<>>, input |-> <<>>, echoed |-> FALSE]

\* a final response that is returned as the backend gave it
FinalResponseUnchecked(finalResponse, results) == finalResponse

\* what processFunctionCalls returns for the response to its follow-up
FinalResponse(finalResponse, results) ==
    IF HasUserCreation(results) /\ ~HasOutputText(finalResponse.output)
    THEN UserCreationFallbackResponse(results)
    ELSE finalResponse

\* the response processFunctionCalls returns from its catch block
ErrorFallbackResponse ==
    [id |-> "error_fallback", output |-> <<MessageItem(FunctionErrorText)>>,
     input |-> <<>>, echoed |-> FALSE]

InitDriver ==
    /\ store = [c \in ConvIds |-> NoDoc]
    /\ clock = 1
    /\ nextMsgId = 1
    /\ nextConvId = 1
    /\ mergeLog = NoMerge
    /\ merges = 0
    /\ InitTurns
    /\ InitAux

\* a reply as the end user receives it: a chat_response or error frame of the
\* socket, or the string processWhatsAppMessage returns
Deliver(d, type, message) ==
    [d EXCEPT !.replies = Append(@, [type |-> type, message |-> message])]

\* an awaited call rejects. processWebSocketMessage: the inner catch sends the
\* error frame and rethrows, the outer catch logs. processWhatsAppMessage: the
\* catch returns the error text
Thrown(d) ==
    [Deliver(d, IF d.channel = "website" THEN "error" ELSE "return",
                IF d.channel = "website" THEN WebError ELSE WaError)
        EXCEPT !.pc = "done", !.injected = TRUE]

\* an awaited store call that settles: the handler goes on to next, or throws
Settle(fail, next) ==
    /\ drv' = IF fail THEN Thrown(drv) ELSE [drv EXCEPT !.pc = next]
    /\ UNCHANGED driverOthers

\* a message arrives; processWhatsAppMessage returns at once when
\* formatPhoneToE164 gives no number
DrvStart(channel, fromOk) ==
    /\ drv.pc = "idle"
    /\ channel = "website" => fromOk
    /\ drv' = IF fromOk
              THEN [drv EXCEPT !.channel = channel, !.pc = "getOrCreateConversation"]
              ELSE [Deliver(drv, "return", WaSenderIssue) EXCEPT !.channel = channel,
                                                                 !.pc = "done"]
    /\ UNCHANGED driverOthers

\* the previousResponseId a stored conversation holds when a turn begins:
\* none (a new conversation) or the id of a reply of an earlier turn
StoredResponseIds == {"none", "resp_earlier"}

\* sessionManager.getOrCreateConversation / getOrCreateConversationByIdentifier:
\* the conversation of the turn, with the previousResponseId it holds
DrvGetOrCreateConversation(fail, previous) ==
    /\ drv.pc = "getOrCreateConversation"
    /\ drv' = IF fail THEN Thrown(drv)
              ELSE [drv EXCEPT !.pc = "addUser", !.previousResponseId = previous,
                               !.tokenBefore = previous]
    /\ UNCHANGED driverOthers

\* what conversation.addMessage pushes, as far as the driver goes
Appended(role, content) == [role |-> role, content |-> content]

\* sessionManager.addMessage(id, 'user', message, channel)
DrvAddUserMessage(fail) ==
    /\ drv.pc = "addUser"
    /\ drv' = IF fail THEN Thrown(drv)
              ELSE [drv EXCEPT !.appended = Append(@, Appended("user", <<"question">>)),
                               !.pc = IF drv.channel = "whatsapp" THEN "autoMerge"
                                      ELSE "getConversationById"]
    /\ UNCHANGED driverOthers

\* the auto-merge of processWhatsAppMessage, whose failures are caught
DrvAutoMerge(fail) ==
    /\ drv.pc = "autoMerge"
    /\ drv' = [drv EXCEPT !.pc = "getConversationById", !.injected = @ \/ fail]
    /\ UNCHANGED driverOthers

\* sessionManager.getConversationById
DrvGetConversationById(fail) ==
    /\ drv.pc = "getConversationById"
    /\ Settle(fail, "processMessage")

\* a handler that never takes up a reply without function calls
AfterInitialStuck(response) == IF HasFunctionCalls(response) THEN "tools" ELSE "sent"

\* where the handler goes with a response of the backend: into
\* processFunctionCalls when it has function calls, else to the reply
AfterInitial(response) == IF HasFunctionCalls(response) THEN "tools" ELSE "reply"

\* a driver that chases the function calls of the follow-up's response
AfterFollowUpChased(response) == AfterInitial(response)

\* where processFunctionCalls goes with the response to its follow-up: it
\* returns it
AfterFollowUp(response) == "reply"

\* the results of the function calls of a response, none settled yet
PendingResults(response) == [i \in 1..Len(FunctionCalls(response)) |-> PendingEntry]

\* openaiService.processMessage: the initial request, which the backend
\* answers or fails
DrvProcessMessage(fail, output, echoed) ==
    /\ drv.pc = "processMessage"
    /\ LET response == [id |-> "resp_initial", output |-> output,
                        input |-> InitialInput, echoed |-> echoed]
           sent == [drv EXCEPT !.requests =
                       Append(@, [kind |-> "initial", input |-> InitialInput,
                                  previous_response_id |-> drv.previousResponseId])]
       IN drv' = IF fail THEN [Thrown(sent) EXCEPT !.backendFailed = "initial"]
                 ELSE [sent EXCEPT !.response = response,
                                   !.intents = FunctionCalls(response),
                                   !.results = PendingResults(response),
                                   !.pc = AfterInitial(response)]
    /\ UNCHANGED driverOthers

\* processFunctionCalls: one tool call settles; the calls run in parallel and
\* each has its own try/catch
DrvExecuteTool(i, outcome) ==
    /\ drv.pc = "tools"
    /\ i \in 1..Len(drv.results)
    /\ drv.results[i] = PendingEntry
    /\ outcome = "knowledge" => FunctionCalls(drv.response)[i].name = "queryKnowledgeBase"
    /\ outcome \in {"created", "createdNamed"} =>
          FunctionCalls(drv.response)[i].name = "createUser"
    /\ drv' = [drv EXCEPT
                  !.results[i] = ResultEntry(FunctionCalls(drv.response)[i], outcome),
                  !.executed = Append(@, [call_id |-> FunctionCalls(drv.response)[i].call_id,
                                          request |-> Len(drv.requests)]),
                  !.injected = @ \/ (outcome = "throws")]
    /\ UNCHANGED driverOthers

\* processFunctionCalls after Promise.all: the follow-up request, which the
\* backend answers or fails; a failure ends in the catch block's response
DrvFollowUp(fail, output, echoed) ==
    /\ drv.pc = "tools"
    /\ \A i \in 1..Len(drv.results) : drv.results[i] # PendingEntry
    /\ LET input == FollowUpInput(drv.response, drv.results)
           response == [id |-> "resp_followup", output |-> output,
                        input |-> input, echoed |-> echoed]
           sent == [drv EXCEPT !.requests =
                       Append(@, [kind |-> "followUp", input |-> input,
                                  previous_response_id |-> drv.response.id]),
                                 !.settled = drv.results]
       IN drv' = IF fail
                 THEN [sent EXCEPT !.response = ErrorFallbackResponse,
                                   !.injected = TRUE,
                                   !.backendFailed = "followUp",
                                   !.pc = "reply"]
                 ELSE [sent EXCEPT !.response = FinalResponse(response, drv.results),
                                   !.finalOutput = output,
                                   !.results = PendingResults(response),
                                   !.pc = AfterFollowUp(response)]
    /\ UNCHANGED driverOthers

\* extractResponseText, then the chat_response frame of the socket
DrvReply ==
    /\ drv.pc = "reply"
    /\ LET text == ExtractResponseText(drv.response)
           d == [drv EXCEPT !.responseText = text, !.pc = "addAssistant"]
       IN drv' = IF drv.channel = "website"
                 THEN Deliver(d, "chat_response", OrElse(text, WebFallback))
                 ELSE d
    /\ UNCHANGED driverOthers

\* sessionManager.addMessage(id, 'assistant', responseText || '', channel)
DrvAddAssistantMessage(fail) ==
    /\ drv.pc = "addAssistant"
    /\ drv' = IF fail THEN Thrown(drv)
              ELSE [drv EXCEPT !.appended = Append(@, Appended("assistant", drv.responseText)),
                               !.pc = "updateResponseId"]
    /\ UNCHANGED driverOthers

\* sessionManager.updateResponseId(conversation._id, openaiResponse.id), after
\* which processWhatsAppMessage returns its reply
DrvUpdateResponseId(fail) ==
    /\ drv.pc = "updateResponseId"
    /\ LET updated == [drv EXCEPT !.previousResponseId = drv.response.id, !.pc = "done"]
       IN drv' = IF fail THEN Thrown(drv)
                 ELSE IF drv.channel = "whatsapp"
                 THEN Deliver(updated, "return", OrElse(drv.responseText, WaFallback))
                 ELSE updated
    /\ UNCHANGED driverOthers

NextDriver ==
    \/ \E channel \in {"website", "whatsapp"}, fromOk \in BOOLEAN : DrvStart(channel, fromOk)
    \/ \E fail \in BOOLEAN, previous \in StoredResponseIds :
           DrvGetOrCreateConversation(fail, previous)
    \/ \E fail \in BOOLEAN : DrvAddUserMessage(fail)
    \/ \E fail \in BOOLEAN : DrvAutoMerge(fail)
    \/ \E fail \in BOOLEAN : DrvGetConversationById(fail)
    \/ \E fail \in BOOLEAN, output \in InitialOutputs, echoed \in BOOLEAN :
           DrvProcessMessage(fail, output, echoed)
    \/ \E i \in 1..MaxIntents, outcome \in ToolOutcomes : DrvExecuteTool(i, outcome)
    \/ \E fail \in BOOLEAN, output \in FollowUpOutputs, echoed \in BOOLEAN :
           DrvFollowUp(fail, output, echoed)
    \/ DrvReply
    \/ \E fail \in BOOLEAN : DrvAddAssistantMessage(fail)
    \/ \E fail \in BOOLEAN : DrvUpdateResponseId(fail)

SpecDriver == InitDriver /\ [][NextDriver]_vars

(***************************************************************************)
(* Claims about the round-trip driver.                                     *)
(***************************************************************************)
\* C6: whatever call of the store, of the backend or of a tool fails, every
\* reply delivered to the end user (the frames processWebSocketMessage sends,
\* the string processWhatsAppMessage returns) is a non-empty text, and a turn
\* that has ended has delivered one: no failure ends it without a reply.
C6_ReplyIsNonEmpty ==
    /\ \A i \in 1..Len(drv.replies) : drv.replies[i].message # <<>>
    /\ drv.pc = "done" => drv.replies # <<>>

\* a turn in which a call failed has ended with a reply
C6_Witness == drv.pc = "done" /\ drv.injected /\ drv.replies # <<>>

\* the function_call and function_call_output items of a request's input
FunctionItems(input) ==
    SelectSeq(input, LAMBDA item : item.type \in {"function_call", "function_call_output"})

TimesExecuted(call_id) ==
    Cardinality({k \in 1..Len(drv.executed) : drv.executed[k].call_id = call_id})

\* C7: once the tool calls of a reply have settled, every intent of the
\* reply has been executed once, whether or not an earlier one threw, the
\* follow-up request has been sent, and the function-call items of its input
\* are one function_call/function_call_output pair per intent, in the order
\* of the intents.
C7_OnePairPerIntentInOrder ==
    (drv.intents # <<>> /\ drv.pc # "tools") =>
        /\ \A i \in 1..Len(drv.intents) : TimesExecuted(drv.intents[i].call_id) = 1
        /\ Len(drv.requests) = 2
        /\ LET items == FunctionItems(drv.requests[2].input)
           IN /\ Len(items) = 2 * Len(drv.intents)
              /\ \A i \in 1..Len(drv.intents) :
                    /\ items[2 * i - 1].type = "function_call"
                    /\ items[2 * i - 1].call_id = drv.intents[i].call_id
                    /\ items[2 * i].type = "function_call_output"
                    /\ items[2 * i].call_id = drv.intents[i].call_id

\* two intents, the first of which threw, and the follow-up request sent
C7_Witness ==
    /\ Len(drv.intents) >= 2
    /\ Len(drv.requests) = 2
    /\ FunctionItems(drv.requests[2].input)[2] =
          FunctionCallOutputItem(drv.intents[1].call_id, "error")

RequestsOfKind(kind) ==
    Cardinality({k \in 1..Len(drv.requests) : drv.requests[k].kind = kind})

\* C10: a turn sends at most one initial and at most one follow-up request
\* to the backend; every tool call it executes is an intent of the reply to
\* the initial request, executed before the follow-up was sent, so that the
\* function calls of the follow-up's reply are never executed.
C10_ToolLoopOneLevelDeep ==
    /\ RequestsOfKind("initial") <= 1
    /\ RequestsOfKind("followUp") <= 1
    /\ Len(drv.requests) <= 2
    /\ \A k \in 1..Len(drv.executed) :
          /\ drv.executed[k].request = 1
          /\ \E i \in 1..Len(drv.intents) : drv.intents[i].call_id = drv.executed[k].call_id
    /\ drv.response.id = "resp_followup" =>
          \A i \in 1..Len(FunctionCalls(drv.response)) :
              TimesExecuted(FunctionCalls(drv.response)[i].call_id) = 0

\* a turn has ended whose follow-up reply asked for a further function call
C10_Witness ==
    /\ drv.pc = "done"
    /\ drv.response.id = "resp_followup"
    /\ HasFunctionCalls(drv.response)

\* the ids the backend gives to the replies it returns in a turn
BackendResponseIds == {"resp_initial", "resp_followup"}

\* C11: the initial request of a turn carries the previousResponseId the
\* conversation held when the turn began, and whenever the stored
\* previousResponseId differs from that value it is the id of a reply the
\* backend returned in this turn: never an id made up locally, and never
\* changed by a turn whose request to the backend failed.
C11_ResponseIdOnlyFromBackend ==
    /\ drv.requests # <<>> => drv.requests[1].previous_response_id = drv.tokenBefore
    /\ drv.previousResponseId # drv.tokenBefore =>
          drv.previousResponseId \in BackendResponseIds

\* C12: a turn that has ended after its user message was appended has
\* appended exactly the user message and then one assistant message, whether
\* it succeeded or failed.
C12_FailedTurnAppendsErrorMessage ==
    (drv.pc = "done" /\ drv.appended # <<>>) =>
        /\ Len(drv.appended) = 2
        /\ drv.appended[1].role = "user"
        /\ drv.appended[2].role = "assistant"

(***************************************************************************)
(* SpecTool: toolsExecutor.executeTool on one function call, with the      *)
(* handlers of the registered tools.                                       *)
(***************************************************************************)
toolOthers ==
    <<store, clock, nextMsgId, nextConvId, mergeLog, merges, turnVars, drv, ctx, ident, sum,
      pv>>

\* JavaScript values of an argument: undefined, a number, a string (its
\* characters)
Undefined == [t |-> "undefined", s |-> <<>>, n |-> 0, integer |-> FALSE]

Num(n) == [t |-> "number", s |-> <<>>, n |-> n, integer |-> TRUE]

\* a number that is not an integer, between n and n + 1
Fraction(n) == [t |-> "number", s |-> <<>>, n |-> n, integer |-> FALSE]

Str(s) == [t |-> "string", s |-> s, n |-> 0, integer |-> FALSE]

\* a string of n characters
Repeat(n) == [i \in 1..n |-> "a"]

\* v is truthy
Truthy(v) ==
    \/ v.t = "string" /\ v.s # <<>>
    \/ v.t = "number" /\ (v.n # 0 \/ ~v.integer)

\* String.prototype.trim
RECURSIVE TrimStart(_)
TrimStart(s) == IF s # <<>> /\ Head(s) = " " THEN TrimStart(Tail(s)) ELSE s

RECURSIVE TrimEnd(_)
TrimEnd(s) ==
    IF s # <<>> /\ s[Len(s)] = " " THEN TrimEnd(SubSeq(s, 1, Len(s) - 1)) ELSE s

Trim(s) == TrimEnd(TrimStart(s))

\* limits of the validators and of the searchPreviousConversations handler
MaxTimezoneLength == 50

MaxSearchTextLength == 500

MinLimit == 1

\* the limit of a search when the arguments give none
DefaultLimit == 5

MaxLimit == 20

MinPhoneLength == 5

MinPhoneDigits == 7

ValidContentTypes == {<<"service">>, <<"policy">>, <<"faq">>, <<"location">>, <<"general">>}

\* the argument objects a function call carries
NoArgs ==
    [timezone |-> Undefined, text |-> Undefined, limit |-> Undefined,
     contentType |-> Undefined, phoneNumber |-> Undefined]

TimezoneValues ==
    {Num(1), Str(<<"U", "T", "C">>), Str(Repeat(MaxTimezoneLength)),
     Str(Repeat(MaxTimezoneLength + 1))}

TextValues ==
    {Undefined, Num(42), Str(<<>>), Str(<<" ">>), Str(<<"f", "e", "e", "s">>),
     Str(Repeat(MaxSearchTextLength)), Str(Repeat(MaxSearchTextLength + 1))}

LimitValues ==
    {Undefined, Str(<<"5">>), Fraction(1), Num(MinLimit - 1), Num(MinLimit), Num(MaxLimit),
     Num(MaxLimit + 1)}

ContentTypeValues == {Undefined, Str(<<"faq">>), Str(<<"bogus">>)}

PhoneValues == {Num(42), Str(<<>>), Str(<<"1", "2", "3">>), Str(WebPhone)}

ArgumentObjects ==
    {NoArgs}
    \cup {[NoArgs EXCEPT !.timezone = v] : v \in TimezoneValues}
    \cup {[NoArgs EXCEPT !.text = v, !.limit = l, !.contentType = c] :
             v \in TextValues, l \in LimitValues, c \in ContentTypeValues}
    \cup {[NoArgs EXCEPT !.phoneNumber = v] : v \in PhoneValues}

\* the arguments string of a function call: text that is not JSON, or the JSON
\* of null, of a number, or of an object
ArgumentStrings ==
    {[json |-> "invalid", value |-> NoArgs], [json |-> "null", value |-> NoArgs],
     [json |-> "number", value |-> NoArgs]}
    \cup {[json |-> "object", value |-> o] : o \in ArgumentObjects}

ToolNames ==
    {"getCurrentTime", "queryKnowledgeBase", "searchPreviousConversations",
     "customTool", "unknownTool"}

\* toolRegistry: the three built-in tools and one registered by registerTool
Registered(name) == name # "unknownTool"

BuiltInTools == {"getCurrentTime", "queryKnowledgeBase", "searchPreviousConversations"}

Valid == [valid |-> TRUE, error |-> "none"]

Invalid(error) == [valid |-> FALSE, error |-> error]

\* validateSearchPreviousConversationsArgs
ValidateSearchPreviousConversationsArgs(args) ==
    IF ~Truthy(args.phoneNumber) \/ args.phoneNumber.t # "string"
    THEN Invalid("Phone number is required and must be a string")
    ELSE IF Len(Trim(args.phoneNumber.s)) < MinPhoneLength
    THEN Invalid("Phone number too short")
    ELSE Valid

\* validateGetCurrentTimeArgs
ValidateGetCurrentTimeArgs(args) ==
    IF args.timezone.t = "undefined" THEN Valid
    ELSE IF args.timezone.t # "string" THEN Invalid("Timezone must be a string")
    ELSE IF Len(args.timezone.s) > MaxTimezoneLength THEN Invalid("Timezone string too long")
    ELSE Valid

\* the validator without the check of the range of limit
ValidateQueryKnowledgeBaseArgsAnyLimit(args) ==
    LET hasText == Truthy(args.text) /\ args.text.t = "string" /\ Len(Trim(args.text.s)) > 0
        hasContentType == Truthy(args.contentType) /\ args.contentType.t = "string"
    IN IF ~hasText /\ ~hasContentType
       THEN Invalid("At least one search parameter required")
       ELSE IF Truthy(args.text) /\ args.text.t = "string"
               /\ Len(args.text.s) > MaxSearchTextLength
       THEN Invalid("Search text too long (max 500 characters)")
       ELSE IF args.limit.t # "undefined" /\ (args.limit.t # "number" \/ ~args.limit.integer)
       THEN Invalid("Limit must be an integer")
       ELSE IF Truthy(args.contentType) /\ args.contentType.s \notin ValidContentTypes
       THEN Invalid("Invalid contentType")
       ELSE Valid

\* validateQueryKnowledgeBaseArgs (category and tag are absent)
ValidateQueryKnowledgeBaseArgs(args) ==
    LET hasText == Truthy(args.text) /\ args.text.t = "string" /\ Len(Trim(args.text.s)) > 0
        hasContentType == Truthy(args.contentType) /\ args.contentType.t = "string"
    IN IF ~hasText /\ ~hasContentType
       THEN Invalid("At least one search parameter required")
       ELSE IF Truthy(args.text) /\ args.text.t = "string"
               /\ Len(args.text.s) > MaxSearchTextLength
       THEN Invalid("Search text too long (max 500 characters)")
       ELSE IF args.limit.t # "undefined" /\ (args.limit.t # "number" \/ ~args.limit.integer)
       THEN Invalid("Limit must be an integer")
       ELSE IF args.limit.t # "undefined" /\ (args.limit.n < MinLimit \/ args.limit.n > MaxLimit)
       THEN Invalid("Limit must be between 1 and 20")
       ELSE IF Truthy(args.contentType) /\ args.contentType.s \notin ValidContentTypes
       THEN Invalid("Invalid contentType")
       ELSE Valid

\* validateToolArguments: of the two properties of this name in the object
\* literal the later one is in effect, which has no case for
\* searchPreviousConversations
ValidateToolArguments(name, args) ==
    CASE name = "getCurrentTime" -> ValidateGetCurrentTimeArgs(args)
      [] name = "queryKnowledgeBase" -> ValidateQueryKnowledgeBaseArgs(args)
      [] OTHER -> Valid

\* the results executeTool and the handlers return, by the keys they carry
Envelope(success, error, message, code, userMessage) ==
    [success |-> success, error |-> error, message |-> message, code |-> code,
     user_message |-> userMessage]

InitTool ==
    /\ store = [c \in ConvIds |-> NoDoc]
    /\ clock = 1
    /\ nextMsgId = 1
    /\ nextConvId = 1
    /\ mergeLog = NoMerge
    /\ merges = 0
    /\ InitTurns
    /\ InitAux

\* executeTool returns result; failure is what went wrong in the call, if
\* anything did: an unknown name, unparsable arguments, something thrown in
\* or by the handler
Returned(failure, result) ==
    [tool EXCEPT !.pc = "returned", !.failure = failure, !.result = result]

\* executeTool up to its await: the handler is looked up, the arguments are
\* parsed, checked to be an object and validated, and the handler is called
ExecuteTool(name, arguments, hasConversation) ==
    /\ tool.pc = "idle"
    /\ LET call == [tool EXCEPT !.name = name, !.arguments = arguments,
                                !.hasConversation = hasConversation]
           validation == ValidateToolArguments(name, arguments.value)
       IN tool' =
            IF ~Registered(name)
            THEN [call EXCEPT !.pc = "returned", !.failure = "unknown",
                      !.result = Envelope(FALSE, TRUE, TRUE, "UNKNOWN_TOOL", FALSE)]
            ELSE IF arguments.json = "invalid"
            THEN [call EXCEPT !.pc = "returned", !.failure = "unparsable",
                      !.result = Envelope(FALSE, TRUE, TRUE, "INVALID_ARGUMENTS", TRUE)]
            ELSE IF arguments.json # "object"
            THEN [call EXCEPT !.pc = "returned",
                      !.result = Envelope(FALSE, TRUE, TRUE, "INVALID_ARGUMENTS_STRUCTURE", TRUE)]
            ELSE IF ~validation.valid
            THEN [call EXCEPT !.pc = "returned",
                      !.result = Envelope(FALSE, TRUE, TRUE, "INVALID_TOOL_ARGUMENTS", TRUE)]
            ELSE [call EXCEPT !.pc = "handler", !.handlerRan = TRUE]
    /\ UNCHANGED toolOthers

\* the getCurrentTime handler, which catches what toLocaleString throws
GetCurrentTime(args) == Returned("none", Envelope(TRUE, FALSE, FALSE, "none", TRUE))

\* the queryKnowledgeBase handler: its catch block answers whatever is thrown,
\* args.text.trim() on a number or a rejected search
\* knowledgeService.search(query, limit) is called with the limit of the
\* arguments, or with the default of the destructuring when there is none
QueryKnowledgeBase(args, outcome) ==
    IF Truthy(args.text) /\ args.text.t # "string"
    THEN Returned("threw", Envelope(FALSE, TRUE, TRUE, "KNOWLEDGE_QUERY_ERROR", TRUE))
    ELSE [(IF outcome = "fails"
           THEN Returned("threw", Envelope(FALSE, TRUE, TRUE, "KNOWLEDGE_QUERY_ERROR", TRUE))
           ELSE Returned("none", Envelope(TRUE, FALSE, FALSE, "none", FALSE)))
          EXCEPT !.searched = TRUE,
                 !.limit = IF args.limit.t = "undefined" THEN Num(DefaultLimit)
                           ELSE args.limit]

\* the searchPreviousConversations handler: its catch block answers whatever
\* is thrown (phoneNumber.replace on a value that is no string, a rejected
\* find, a failed merge) without a code; a number of fewer than seven digits
\* and a missing conversation id are answered without error flag and code
SearchPreviousConversationsTool(args, hasConversation, outcome) ==
    IF args.phoneNumber.t # "string"
    THEN Returned("threw", Envelope(FALSE, TRUE, TRUE, "none", TRUE))
    ELSE IF Len(Digits(args.phoneNumber.s)) < MinPhoneDigits \/ ~hasConversation
    THEN Returned("none", Envelope(FALSE, FALSE, TRUE, "none", TRUE))
    ELSE IF outcome = "fails"
    THEN Returned("threw", Envelope(FALSE, TRUE, TRUE, "none", TRUE))
    ELSE Returned("none", Envelope(TRUE, FALSE, TRUE, "none", TRUE))

\* a handler registered with registerTool that returns or throws; what it
\* throws is answered by the catch block of executeTool
CustomTool(outcome) ==
    IF outcome = "fails"
    THEN Returned("threw", Envelope(FALSE, TRUE, TRUE, "EXECUTION_ERROR", TRUE))
    ELSE Returned("none", Envelope(TRUE, FALSE, FALSE, "none", FALSE))

\* await handler(args, context) settles and executeTool returns
HandlerSettles(outcome) ==
    /\ tool.pc = "handler"
    /\ tool' = CASE tool.name = "getCurrentTime" -> GetCurrentTime(tool.arguments.value)
                 [] tool.name = "queryKnowledgeBase" ->
                        QueryKnowledgeBase(tool.arguments.value, outcome)
                 [] tool.name = "searchPreviousConversations" ->
                        SearchPreviousConversationsTool(tool.arguments.value,
                                                        tool.hasConversation, outcome)
                 [] OTHER -> CustomTool(outcome)
    /\ UNCHANGED toolOthers

NextTool ==
    \/ \E name \in ToolNames, arguments \in ArgumentStrings, hasConversation \in BOOLEAN :
           ExecuteTool(name, arguments, hasConversation)
    \/ \E outcome \in {"ok", "fails"} : HandlerSettles(outcome)

SpecTool == InitTool /\ [][NextTool]_vars

(***************************************************************************)
(* Claims about the tool executor.                                         *)
(***************************************************************************)
\* C8: executeTool returns for every call, and when the call failed (unknown
\* name, unparsable arguments, something thrown in the handler) what it
\* returns is an error envelope with error = true, a message and a code.
C8_FailureGivesErrorEnvelope ==
    (tool.pc = "returned" /\ tool.failure \in {"unknown", "unparsable", "threw"}) =>
        /\ tool.result.error
        /\ tool.result.message
        /\ tool.result.code # "none"

\* the validator written for the arguments of a built-in tool
OwnValidation(name, args) ==
    CASE name = "getCurrentTime" -> ValidateGetCurrentTimeArgs(args)
      [] name = "queryKnowledgeBase" -> ValidateQueryKnowledgeBaseArgs(args)
      [] name = "searchPreviousConversations" -> ValidateSearchPreviousConversationsArgs(args)

\* the arguments are no object or fail the validator of the tool
MalformedArguments(name, arguments) ==
    arguments.json # "object" \/ ~OwnValidation(name, arguments.value).valid

\* C9: a call of a built-in tool with malformed or oversized arguments is
\* rejected before its handler runs: the handler is never invoked, and the
\* result carries a user-facing message and a code.
C9_MalformedArgumentsRejected ==
    (/\ tool.pc # "idle"
     /\ tool.name \in BuiltInTools
     /\ MalformedArguments(tool.name, tool.arguments)) =>
        /\ ~tool.handlerRan
        /\ tool.pc = "returned"
        /\ tool.result.user_message
        /\ tool.result.code # "none"

(***************************************************************************)
(* SpecContext: the context assembly of a turn. The handler has appended   *)
(* the user message, loads the conversation again, assembles               *)
(* messageHistory, and openaiService.processMessage builds the input of    *)
(* the request from it.                                                    *)
(***************************************************************************)
\* messages of the loaded conversation
MaxStored == 25

contextOthers ==
    <<store, clock, nextMsgId, nextConvId, mergeLog, merges, turnVars, drv, tool, ident,
      sum, pv>>

\* config.summary.recentMessageCount || 20
RecentMessageCount == 20

\* config.conversation.maxHistoryMessages || 10
MaxHistoryMessages == 10

\* the stored messages of a conversation of n messages, the last of which is
\* the user message of this turn; the roles alternate
StoredMessages(n) ==
    [i \in 1..n |-> [id |-> i,
                     role |-> IF (n - i) % 2 = 0 THEN "user" ELSE "assistant",
                     content |-> <<"m", i>>]]

\* msg => ({ role: msg.role, content: msg.content })
RoleContent(msg) == [role |-> msg.role, content |-> msg.content]

MapRoleContent(msgs) == [i \in 1..Len(msgs) |-> RoleContent(msgs[i])]

\* the system turn pushed for a summary
SummaryTurn(text) == [role |-> "system", content |-> <<"CONVERSATION SUMMARY: ">> \o text]

\* config.prompts.mainSystemPrompt, which heads the input of every request
SystemPromptTurn == [role |-> "system", content |-> <<"prompt">>]

\* config.summary.enabled && conversation.summary && conversation.summary.text
UsesSummary(c) == c.enabled /\ c.hasSummary /\ c.text # <<>>

\* the messages that follow the one summary.lastMessageId names
RecentMessagesSinceSummary(c) ==
    SelectSeq(c.messages, LAMBDA msg : msg.id > c.lastMessageId)

\* conversation.messages.slice(-(config.summary.recentMessageCount || 20))
RecentMessages(c) == SliceLast(c.messages, RecentMessageCount)

\* the window without its limit
HistoryWindowUnlimited(c) == c.messages

\* conversation.messages.slice(-historyLimit)
HistoryWindow(c) == SliceLast(c.messages, MaxHistoryMessages)

\* the messageHistory the handler assembles
MessageHistory(c) ==
    IF UsesSummary(c)
    THEN <<SummaryTurn(c.text)>> \o MapRoleContent(RecentMessages(c))
    ELSE MapRoleContent(HistoryWindow(c))

\* openaiService.processMessage: input = [system prompt, ...history, message]
RequestInput(message, history) ==
    <<SystemPromptTurn>> \o history \o <<[role |-> "user", content |-> message]>>

InitContext ==
    /\ store = [c \in ConvIds |-> NoDoc]
    /\ clock = 1
    /\ nextMsgId = 1
    /\ nextConvId = 1
    /\ mergeLog = NoMerge
    /\ merges = 0
    /\ InitTurns
    /\ InitAux

\* the summaries a stored conversation may hold: none, one with an empty
\* text, one whose lastMessageId matches no message (0) or names a message
SummaryTexts == {<<>>, <<"summary">>}

\* sessionManager.addMessage has appended the user message and
\* getConversationById returns the conversation: n messages, a summary or
\* none; enabled is config.summary.enabled
CtxGetConversationById(n, enabled, hasSummary, text, lastMessageId) ==
    /\ ctx.pc = "idle"
    /\ ~hasSummary => (text = <<>> /\ lastMessageId = 0)
    /\ ctx' = [ctx EXCEPT !.pc = "loaded", !.enabled = enabled,
                           !.hasSummary = hasSummary, !.text = text,
                           !.lastMessageId = lastMessageId,
                           !.messages = StoredMessages(n),
                           !.message = StoredMessages(n)[n].content]
    /\ UNCHANGED contextOthers

\* the handler assembles messageHistory
CtxAssemble ==
    /\ ctx.pc = "loaded"
    /\ ctx' = [ctx EXCEPT !.pc = "assembled", !.messageHistory = MessageHistory(ctx)]
    /\ UNCHANGED contextOthers

\* openaiService.processMessage builds the input of the request
CtxProcessMessage ==
    /\ ctx.pc = "assembled"
    /\ ctx' = [ctx EXCEPT !.pc = "sent",
                           !.input = RequestInput(ctx.message, ctx.messageHistory)]
    /\ UNCHANGED contextOthers

NextContext ==
    \/ \E n \in 1..MaxStored, enabled \in BOOLEAN, hasSummary \in BOOLEAN,
          text \in SummaryTexts :
           \E lastMessageId \in 0..n :
               CtxGetConversationById(n, enabled, hasSummary, text, lastMessageId)
    \/ CtxAssemble
    \/ CtxProcessMessage

SpecContext == InitContext /\ [][NextContext]_vars

\* C13: with summaries enabled, a summary of non-empty text and more than
\* recentMessageCount stored messages, the input of the request is, after
\* the system prompt that heads every request, exactly the summary system
\* turn, then the last recentMessageCount stored messages in stored order,
\* then the user message of the turn (1 + 20 + 1 turns), whatever
\* summary.lastMessageId is.
C13_SummaryThenRecentThenCurrent ==
    (ctx.pc = "sent" /\ ctx.enabled /\ ctx.hasSummary /\ ctx.text # <<>>
        /\ Len(ctx.messages) > RecentMessageCount) =>
        LET n == Len(ctx.messages)
            context == Tail(ctx.input)
        IN /\ Head(ctx.input) = SystemPromptTurn
           /\ Len(context) = 1 + RecentMessageCount + 1
           /\ context[1].role = "system"
           /\ context[1].content = <<"CONVERSATION SUMMARY: ">> \o ctx.text
           /\ \A i \in 1..RecentMessageCount :
                 /\ context[1 + i].role = ctx.messages[n - RecentMessageCount + i].role
                 /\ context[1 + i].content = ctx.messages[n - RecentMessageCount + i].content
           /\ context[RecentMessageCount + 2] = [role |-> "user", content |-> ctx.message]

\* a request sent for a conversation of 25 messages whose summary names a
\* message inside the window of recent messages
C13_Witness ==
    /\ ctx.pc = "sent"
    /\ UsesSummary(ctx)
    /\ Len(ctx.messages) = 25
    /\ ctx.lastMessageId = 24
    /\ Len(ctx.input) = 23

\* C14: with summaries disabled, or no summary, or a summary of empty text,
\* the assembled history is exactly the last maxHistoryMessages stored
\* messages in stored order, all of them when there are fewer, and holds no
\* system turn.
C14_NoSummaryGivesHistoryWindow ==
    (ctx.pc \in {"assembled", "sent"} /\ ~(ctx.enabled /\ ctx.hasSummary /\ ctx.text # <<>>)) =>
        LET n == Len(ctx.messages)
            k == IF n < MaxHistoryMessages THEN n ELSE MaxHistoryMessages
        IN /\ Len(ctx.messageHistory) = k
           /\ \A i \in 1..k :
                 /\ ctx.messageHistory[i].role = ctx.messages[n - k + i].role
                 /\ ctx.messageHistory[i].content = ctx.messages[n - k + i].content
                 /\ ctx.messageHistory[i].role # "system"

\* a history assembled for a conversation of more than maxHistoryMessages
\* messages whose summary has an empty text, summaries being enabled
C14_Witness ==
    /\ ctx.pc = "assembled"
    /\ ctx.enabled /\ ctx.hasSummary /\ ctx.text = <<>>
    /\ Len(ctx.messages) > MaxHistoryMessages
    /\ Len(ctx.messageHistory) = MaxHistoryMessages

(***************************************************************************)
(* SpecIdent: the identifiers of the stored conversations. Conversations   *)
(* are created, appended to, given identifiers (addIdentifier,             *)
(* updateUserInfo) and merged, one call at a time.                         *)
(***************************************************************************)
\* calls of addIdentifier and updateUserInfo
MaxCalls == 2

\* messages appended while identifiers are added and merged
MaxAppends == 1

identOthers ==
    <<clock, nextMsgId, nextConvId, mergeLog, turnVars, drv, tool, ctx, sum, pv>>

\* identificationService.PRIORITY.USER_ID
PriorityUserId == 90

\* the default of addIdentifier's priority parameter
DefaultPriority == 0

UserId == <<"u", "1">>

\* the calls of addIdentifier besides those of updateUserInfo:
\* ('phone', phoneNumber, 70, false) of the tools, and a call that leaves the
\* priority to its default
IdentifierCalls ==
    {[type |-> "phone", value |-> WebPhone, priority |-> p, verified |-> FALSE] :
        p \in {DefaultPriority, PriorityPhone}}

\* the userInfo objects given to updateUserInfo
UserInfos ==
    {[userId |-> u, phone |-> ph] : u \in {<<>>, UserId}, ph \in {<<>>, WebPhone}}
    \ {NoUserInfo}

InitIdent == InitStore /\ InitTurns

\* the record of a call on the identifiers of conversation c
Call(op, c, type, value, priority, verified, persisted, candidates) ==
    [op |-> op, conv |-> c, type |-> type, value |-> value, priority |-> priority,
     verified |-> verified, persisted |-> persisted,
     before |-> store[c].identifiers, candidates |-> candidates,
     calls |-> ident.calls + (IF op = "merge" THEN 0 ELSE 1),
     userInfo |-> NoUserInfo, candUserInfos |-> <<>>]

\* findById, addIdentifier(type, value, priority, verified), save
IdAddIdentifier(c, call) ==
    /\ ident.calls < MaxCalls
    /\ Stored(c)
    /\ store' = [store EXCEPT ![c] =
                    AddIdentifier(@, call.type, call.value, call.priority, call.verified)]
    /\ ident' = Call("addIdentifier", c, call.type, call.value, call.priority,
                     call.verified, TRUE, <<>>)
    /\ UNCHANGED <<merges, identOthers>>

\* the conversation as sessionManager.updateUserInfo saves it
WithUserInfo(doc, userInfo) ==
    LET d0 == [doc EXCEPT !.userInfo = userInfo]
        d1 == IF userInfo.userId # <<>>
              THEN AddIdentifier(d0, "user_id", userInfo.userId, PriorityUserId, TRUE)
              ELSE d0
    IN IF userInfo.phone # <<>>
       THEN AddIdentifier(d1, "phone", userInfo.phone, PriorityPhone, TRUE)
       ELSE d1

\* sessionManager.updateUserInfo(conversationId, userInfo)
IdUpdateUserInfo(c, userInfo) ==
    /\ ident.calls < MaxCalls
    /\ Stored(c)
    /\ store' = [store EXCEPT ![c] = WithUserInfo(@, userInfo)]
    /\ ident' = Call("updateUserInfo", c, "phone", userInfo.phone, PriorityPhone,
                     TRUE, TRUE, <<>>)
    /\ UNCHANGED <<merges, identOthers>>

\* identificationService.mergeConversations(p, candidates); failure is the
\* store call that rejects: none, the save of the primary, or the deleteMany
IdMerge(p, C, failure) ==
    /\ merges < MaxMerges
    /\ Stored(p)
    /\ C # {} /\ p \notin C /\ \A c \in C : Stored(c)
    /\ LET docs == [i \in 1..Cardinality(C) |-> store[CandidateSeq(C)[i]]]
           saved == SavePrimary(store[p], MergedPrimary(store[p], docs))
           st1 == IF failure = "save" THEN store ELSE [store EXCEPT ![p] = saved]
       IN /\ store' = IF failure = "none" THEN DeleteMany(st1, C) ELSE st1
          /\ ident' = [Call("merge", p, "none", <<>>, 0, FALSE, failure # "save",
                            [i \in 1..Len(docs) |-> docs[i].identifiers])
                           EXCEPT !.userInfo = store[p].userInfo,
                                  !.candUserInfos = [i \in 1..Len(docs) |-> docs[i].userInfo]]
    /\ merges' = merges + 1
    /\ UNCHANGED identOthers

\* SMCreate and SMAddMessage leave the record of the last call alone
NextIdent ==
    \/ SMCreate
    \/ \E c \in ConvIds : nextMsgId <= MaxAppends /\ SMAddMessage(c, "user", "hi", 1)
    \/ \E c \in ConvIds, call \in IdentifierCalls : IdAddIdentifier(c, call)
    \/ \E c \in ConvIds, userInfo \in UserInfos : IdUpdateUserInfo(c, userInfo)
    \/ \E p \in ConvIds, C \in SUBSET ConvIds, f \in {"none", "save", "delete"} :
           IdMerge(p, C, f)

SpecIdent == InitIdent /\ [][NextIdent]_vars

(***************************************************************************)
(* Claims about identifiers.                                               *)
(***************************************************************************)
SamePair(a, b) == a.type = b.type /\ a.value = b.value

\* the identifiers conversation ident.conv holds since the last call on it
After == store[ident.conv].identifiers

\* C15: after a call of addIdentifier (on its own or from updateUserInfo),
\* every (type, value) the conversation held before the call is still held,
\* with a priority not below the one it had and verified if it was verified.
C15_PriorityAndVerifiedMonotonic ==
    ident.op \in {"addIdentifier", "updateUserInfo"} =>
        \A k \in 1..Len(ident.before) :
            \E j \in 1..Len(After) :
                /\ SamePair(After[j], ident.before[k])
                /\ After[j].priority >= ident.before[k].priority
                /\ ident.before[k].verified => After[j].verified

\* addIdentifier was called with a lower priority and unverified for a
\* (type, value) the conversation held verified
C15_Witness ==
    /\ ident.op = "addIdentifier"
    /\ \E k \in 1..Len(ident.before) :
          /\ SamePair(ident.before[k], ident)
          /\ ident.before[k].priority > ident.priority
          /\ ident.before[k].verified /\ ~ident.verified

\* C16: no stored conversation holds two identifiers with the same type and
\* value.
C16_IdentifierPairsUnique ==
    \A c \in ConvIds : Stored(c) =>
        \A i \in 1..Len(store[c].identifiers) : \A j \in 1..Len(store[c].identifiers) :
            i # j => ~SamePair(store[c].identifiers[i], store[c].identifiers[j])

\* a merge has persisted a primary two of whose candidates held the same
\* (type, value)
C16_Witness ==
    /\ ident.op = "merge" /\ ident.persisted
    /\ Len(ident.candidates) = 2
    /\ \E k \in 1..Len(ident.candidates[1]), l \in 1..Len(ident.candidates[2]) :
          SamePair(ident.candidates[1][k], ident.candidates[2][l])

Max(a, b) == IF a >= b THEN a ELSE b

\* C17: after a mergeConversations call that persisted the primary, for
\* every (type, value) that the primary and a candidate both held, the
\* primary's identifier has the higher of the two priorities and is verified
\* if either was.
C17_MergeKeepsHigherPriorityAndVerified ==
    (ident.op = "merge" /\ ident.persisted) =>
        \A j \in 1..Len(ident.before) :
            \A i \in 1..Len(ident.candidates) :
                \A k \in 1..Len(ident.candidates[i]) :
                    SamePair(ident.before[j], ident.candidates[i][k]) =>
                        \E m \in 1..Len(After) :
                            /\ SamePair(After[m], ident.before[j])
                            /\ After[m].priority =
                                  Max(ident.before[j].priority,
                                      ident.candidates[i][k].priority)
                            /\ After[m].verified =
                                  (ident.before[j].verified
                                   \/ ident.candidates[i][k].verified)

\* C18: every stored conversation holds at least one identifier.
C18_AtLeastOneIdentifier ==
    \A c \in ConvIds : Stored(c) => Len(store[c].identifiers) >= 1

\* a conversation that was appended to and given identifiers has taken in
\* two candidates by a merge
C18_Witness ==
    /\ ident.op = "merge" /\ ident.persisted
    /\ Len(ident.candidates) = 2
    /\ ident.calls > 0
    /\ store[ident.conv].messages # <<>>
    /\ \A c \in ConvIds : c # ident.conv => ~Stored(c)

(***************************************************************************)
(* Claims about the phone matching of the two channels (Spec) and about    *)
(* a merge whose deleteMany fails (SpecMerge).                             *)
(***************************************************************************)
\* the key a lookup matches on: phone.replace(/\D/g, '').slice(-9)
MatchDigits(phone) == SliceLast(Digits(phone), MatchLength)

\* C19: "+447911123456" and "07911123456" give the same last-nine-digits
\* key, and in every state a lookup from either side finds the other side's
\* conversation: the Conversation.find of searchPreviousConversations for
\* the typed number returns every other conversation that holds the
\* WhatsApp sender's number, and the find of the auto-merge for the sender's
\* number returns every other conversation that stored the typed number.
C19_SameNumberMatchesAcrossChannels ==
    /\ MatchDigits(WaPhone) = MatchDigits(WebPhone)
    /\ \A current \in DOMAIN store : \A c \in DOMAIN store :
          (c # current /\ Stored(c)) =>
              /\ HasIdentifier(store[c], "whatsapp_phone", WaPhone) =>
                    c \in FindByPhoneEnding(current, "whatsapp_phone", WebPhone)
              /\ HasIdentifier(store[c], "phone", WebPhone) =>
                    c \in FindByPhoneEnding(current, "phone", WaPhone)

\* the tool of a browser turn has found the conversation of the WhatsApp
\* sender, and the auto-merge of a WhatsApp turn has found the browser
\* conversation that stored the number
C19_Witness ==
    \E t1 \in TurnIds, t2 \in TurnIds :
        /\ turns[t1].caller = "tool" /\ turns[t1].cands # <<>>
        /\ HasIdentifier(turns[t1].cands[1].doc, "whatsapp_phone", WaPhone)
        /\ turns[t2].caller = "auto" /\ turns[t2].cands # <<>>
        /\ HasIdentifier(turns[t2].cands[1].doc, "phone", WebPhone)

\* C20: a mergeConversations call whose save of the primary succeeded does
\* not throw to its caller, whether or not its deleteMany failed; the
\* merged primary stays stored.
C20_DeleteFailureIsNotHardFailure ==
    (mergeLog.called /\ mergeLog.persisted) =>
        /\ ~mergeLog.threw
        /\ Stored(mergeLog.primary)

(***************************************************************************)
(* SpecSummary: one mergeConversations call on a browser conversation and  *)
(* the conversations a lookup found, with the summary generation of the    *)
(* merged conversation, and the context assembly of the turn after it.     *)
(***************************************************************************)
\* messages of the primary before the merge
MaxPrimaryMsgs == 2

\* candidates of the merge
MaxCandidates == 2

\* messages of one candidate
MaxCandMsgs == 12

\* the message counts of the candidates: none, a few, or the most
CandidateCounts == {0, MaxPrimaryMsgs, MaxCandMsgs}

summaryOthers ==
    <<store, clock, nextMsgId, nextConvId, mergeLog, merges, turnVars, drv, tool, ctx, ident,
      pv>>

\* config.summary.minMessageCount
MinMessageCount == 5

\* openaiService.getOpenAIClient: the object openai-service.js exports has
\* the methods processMessage, processImageMessage, processFunctionCalls,
\* extractResponseText and constructUserContext, and no getOpenAIClient
HasGetOpenAIClient == FALSE

\* what openai.responses.create of the summary request does: it rejects, it
\* answers with no output text, or it answers with a text
SummaryBackendOutcomes == {"error", "empty", "text"}

\* the text of the answer
BackendText == <<"summary of the merged conversation">>

\* the _id of a message that has none
NoId == 0

\* the summary of an earlier generation
OldSummary ==
    [text |-> <<"summary of the session">>, lastMessageId |-> 301, messageCount |-> 1,
     modelUsed |-> "summaryModel"]

\* the summary object generateSummary builds; createdAt is left out
NewSummary(text, conversation) ==
    [text |-> text,
     lastMessageId |-> conversation.messages[Len(conversation.messages)].id,
     messageCount |-> Len(conversation.messages),
     modelUsed |-> "summaryModel"]

\* summaryService.generateSummary(conversation): null for too few messages,
\* for a missing getOpenAIClient, for a rejected request (the catch), for an
\* answer without text and for a last message without _id
GenerateSummary(conversation, backend) ==
    IF Len(conversation.messages) < MinMessageCount THEN Null
    ELSE IF ~HasGetOpenAIClient THEN Null
    ELSE IF backend = "error" THEN Null
    ELSE IF backend = "empty" THEN Null
    ELSE IF conversation.messages[Len(conversation.messages)].id = NoId THEN Null
    ELSE NewSummary(BackendText, conversation)

\* config.summary.enabled && allMessages.length >= (minMessageCount || 5)
SummaryWanted(enabled, allMessages) == enabled /\ Len(allMessages) >= MinMessageCount

\* an assignment of whatever the generation returned
WithGeneratedSummaryAlways(summary, generated) == generated

\* if (generatedSummary) primaryConversation.summary = generatedSummary
WithGeneratedSummary(summary, generated) ==
    IF generated # Null THEN generated ELSE summary

\* a merge that gives up when no summary was generated
AfterSummaryStrict(wanted, generated) ==
    IF wanted /\ generated = Null THEN "threw" ELSE "summarized"

\* the try/catch around the generation only logs: the merge goes on to save
AfterSummary(wanted, generated) == "summarized"

\* the number of conversations
CountConversations(docs) == Len(docs)

\* totalMergedMessages += conversation.messages.length over the candidates
RECURSIVE TotalMergedMessages(_)
TotalMergedMessages(docs) ==
    IF docs = <<>> THEN 0
    ELSE Len(Head(docs).messages) + TotalMergedMessages(Tail(docs))

\* a stored conversation of identity k with n messages, written from time t0
\* on, the roles alternating
SummaryDoc(k, n, t0) ==
    [NewConversation(IdentityOf(k)[1], IdentityOf(k)[2]) EXCEPT
        !.messages = [i \in 1..n |->
            NewMessage(100 * k + i, IF i % 2 = 1 THEN "user" ELSE "assistant",
                       <<"m", k, i>>, t0 + i,
                       IF k = 1 THEN "whatsapp" ELSE "website")],
        !.v = n]

\* the candidates a lookup returned: the WhatsApp sender's conversation
\* first, then an earlier browser session
SummaryCandidates(counts) ==
    [k \in 1..Len(counts) |-> SummaryDoc(k, counts[k], 0)]

\* the browser conversation the merge is called for, which began after the
\* first candidate's last message
SummaryPrimary(n, counts) == SummaryDoc(3, n, counts[1])

InitSummary == InitContext

\* mergeConversations(primaryConversationId, conversationsToMerge) up to
\* the assignment of the merged arrays: findById, the loop over the
\* candidates, the sort
SumMergeInMemory(n, counts, enabled, previous, backend, failure) ==
    /\ sum.pc = "idle"
    /\ LET before == SummaryPrimary(n, counts)
           docs == SummaryCandidates(counts)
       IN sum' = [sum EXCEPT !.pc = "merged", !.enabled = enabled,
                             !.backend = backend, !.failure = failure,
                             !.before = before, !.candidates = docs,
                             !.primary = MergedPrimary(before, docs),
                             !.summaryBefore = previous, !.summary = previous,
                             !.stored = before, !.storedSummary = previous,
                             !.candidatesStored = TRUE]
    /\ UNCHANGED summaryOthers

\* the generation of the summary of the merged conversation, when wanted
SumGenerateSummary ==
    /\ sum.pc = "merged"
    /\ LET wanted == SummaryWanted(sum.enabled, sum.primary.messages)
           generated == IF wanted THEN GenerateSummary(sum.primary, sum.backend)
                        ELSE Null
       IN sum' = [sum EXCEPT !.pc = AfterSummary(wanted, generated),
                             !.attempted = wanted,
                             !.generated = generated,
                             !.summary = IF wanted
                                         THEN WithGeneratedSummary(@, generated)
                                         ELSE @]
    /\ UNCHANGED summaryOthers

\* primaryConversation.save(); a rejection is rethrown to the caller
SumSave ==
    /\ sum.pc = "summarized"
    /\ sum' = IF sum.failure = "save"
              THEN [sum EXCEPT !.pc = "threw"]
              ELSE [sum EXCEPT !.pc = "saved",
                               !.stored = SavePrimary(sum.stored, sum.primary),
                               !.storedSummary = sum.summary]
    /\ UNCHANGED summaryOthers

\* Conversation.deleteMany of the candidates, then the return of
\* {conversation, mergedCount, mergedMessages}
SumDeleteAndReturn ==
    /\ sum.pc = "saved"
    /\ sum' = IF sum.failure = "delete"
              THEN [sum EXCEPT !.pc = "threw"]
              ELSE [sum EXCEPT !.pc = "returned",
                               !.candidatesStored = FALSE,
                               !.result = [conversation |-> sum.primary,
                                           summary |-> sum.summary,
                                           mergedCount |-> Len(sum.candidates),
                                           mergedMessages |->
                                               TotalMergedMessages(sum.candidates)]]
    /\ UNCHANGED summaryOthers

\* the conversation as the context assembly reads it
AsLoaded(doc, summary, enabled) ==
    [enabled |-> enabled,
     hasSummary |-> summary # Null,
     text |-> IF summary # Null THEN summary.text ELSE <<>>,
     messages |-> doc.messages]

\* the next turn of the browser session: the user message is appended, the
\* conversation is loaded again and messageHistory is assembled
SumNextTurn ==
    /\ sum.pc = "returned"
    /\ LET n == Len(sum.stored.messages)
           last == IF n = 0 THEN 0 ELSE sum.stored.messages[n].timestamp
           doc == AppendMessage(sum.stored,
                                NewMessage(399, "user", <<"next">>, last + 1, "website"))
       IN sum' = [sum EXCEPT !.pc = "assembled",
                             !.stored = doc,
                             !.messageHistory =
                                 MessageHistory(AsLoaded(doc, sum.storedSummary,
                                                         sum.enabled))]
    /\ UNCHANGED summaryOthers

NextSummary ==
    \/ \E n \in 0..MaxPrimaryMsgs, k \in 1..MaxCandidates, enabled \in BOOLEAN,
          previous \in {Null, OldSummary}, backend \in SummaryBackendOutcomes,
          failure \in {"none", "save", "delete"} :
           \E counts \in [1..k -> CandidateCounts] :
               SumMergeInMemory(n, counts, enabled, previous, backend, failure)
    \/ SumGenerateSummary
    \/ SumSave
    \/ SumDeleteAndReturn
    \/ SumNextTurn

SpecSummary == InitSummary /\ [][NextSummary]_vars

\* the generation was attempted and gave no summary
GenerationFailed == sum.attempted /\ sum.generated = Null

\* C21: when the summary generation of a mergeConversations call fails, the
\* merge goes on: it throws only when the store rejects the save or the
\* deleteMany, and when it returns the primary is stored with the merged
\* messages and identifiers and the candidates are deleted.
C21_SummaryFailureDoesNotFailMerge ==
    GenerationFailed =>
        /\ sum.pc = "threw" => sum.failure # "none"
        /\ sum.pc = "returned" =>
              /\ sum.stored.messages = MergedMessages(sum.before, sum.candidates)
              /\ sum.stored.identifiers =
                    MergedIdentifiers(sum.before.identifiers, sum.candidates)
              /\ ~sum.candidatesStored

\* a merge of five or more messages has returned although no summary could
\* be generated
C21_Witness ==
    /\ sum.pc = "returned"
    /\ GenerationFailed
    /\ sum.backend = "error"
    /\ Len(sum.stored.messages) >= MinMessageCount
    /\ ~sum.candidatesStored

\* the merged messages of the call
AllMessages == sum.primary.messages

\* C22: when summaries are enabled, five or more messages were merged and
\* the summary backend would answer with a non-empty text, the primary that
\* mergeConversations returns holds a new summary whose lastMessageId is the
\* id of the last merged message and whose messageCount is the number of
\* merged messages.
C22_SuccessfulGenerationReplacesSummary ==
    (/\ sum.pc = "returned"
     /\ sum.enabled
     /\ Len(AllMessages) >= MinMessageCount
     /\ sum.backend = "text") =>
        /\ sum.result.summary # Null
        /\ sum.result.summary # sum.summaryBefore
        /\ sum.result.summary.text = BackendText
        /\ sum.result.summary.lastMessageId = AllMessages[Len(AllMessages)].id
        /\ sum.result.summary.messageCount = Len(AllMessages)

\* C23: when the generation fails, the summary of the primary is the one it
\* had before, in memory and as stored by the save, and nothing is thrown
\* for it: the merge throws only when the store rejects a call.
C23_FailedGenerationKeepsSummary ==
    GenerationFailed =>
        /\ sum.summary = sum.summaryBefore
        /\ sum.pc \in {"saved", "returned", "assembled"} =>
              sum.storedSummary = sum.summaryBefore
        /\ sum.pc = "returned" => sum.result.summary = sum.summaryBefore
        /\ sum.pc = "threw" => sum.failure # "none"

\* a merge has returned for a primary that had a summary, no summary having
\* been generated
C23_Witness ==
    /\ sum.pc = "returned"
    /\ GenerationFailed
    /\ sum.summaryBefore = OldSummary
    /\ sum.storedSummary = OldSummary

\* the system turns of a message history
SystemTurns(history) == SelectSeq(history, LAMBDA turn : turn.role = "system")

\* C24: the browser conversation (summaries enabled, at least the message
\* that gave the number) has been merged with the WhatsApp conversation of
\* MaxCandMsgs (12) earlier messages that searchPreviousConversations
\* found; at the next turn the conversation holds at least 12 + 1 messages,
\* and the assembled context holds a summary system turn whose summary was
\* made of the merged messages.
C24_MergedContextHasSummaryTurn ==
    (/\ sum.pc = "assembled"
     /\ sum.enabled
     /\ sum.backend = "text"
     /\ Len(sum.before.messages) >= 1
     /\ Len(sum.candidates) = 1
     /\ Len(sum.candidates[1].messages) = MaxCandMsgs) =>
        /\ Len(sum.stored.messages) >= MaxCandMsgs + 1
        /\ SystemTurns(sum.messageHistory) # <<>>
        /\ sum.storedSummary # Null
        /\ sum.storedSummary.messageCount >= MaxCandMsgs + 1

\* C25: mergeConversations returns the merged primary, the number of
\* candidates, and the number of messages merged in: the sum of the
\* candidates' message counts, by which the primary has grown.
C25_MergeReportsCounts ==
    sum.pc = "returned" =>
        /\ sum.result.conversation.messages = sum.stored.messages
        /\ sum.result.conversation.identifiers = sum.stored.identifiers
        /\ sum.result.conversation.messages =
              MergedMessages(sum.before, sum.candidates)
        /\ sum.result.mergedCount = Len(sum.candidates)
        /\ sum.result.mergedMessages =
              Len(sum.stored.messages) - Len(sum.before.messages)

\* a merge of two candidates with different numbers of messages has
\* returned
C25_Witness ==
    /\ sum.pc = "returned"
    /\ sum.result.mergedCount = 2
    /\ sum.result.mergedMessages = MaxPrimaryMsgs + MaxCandMsgs
    /\ Len(sum.before.messages) = 1

(***************************************************************************)
(* Claims about the verification of the identifiers of the two channels    *)
(* (SpecIdent).                                                            *)
(***************************************************************************)
\* the identifiers of type `type` that stored conversation c holds
IdentifiersOfType(c, type) ==
    SelectSeq(store[c].identifiers, LAMBDA id : id.type = type)

\* C26: in every stored conversation the identifier of a WhatsApp sender is
\* verified and the identifier of a browser session is unverified, whatever
\* calls of addIdentifier and updateUserInfo and whatever merges have been
\* made.
C26_SenderVerifiedSessionUnverified ==
    \A c \in ConvIds : Stored(c) =>
        /\ \A k \in 1..Len(IdentifiersOfType(c, "whatsapp_phone")) :
              IdentifiersOfType(c, "whatsapp_phone")[k].verified
        /\ \A k \in 1..Len(IdentifiersOfType(c, "website_session")) :
              ~IdentifiersOfType(c, "website_session")[k].verified

\* updateUserInfo has given a browser conversation a verified phone number
\* and user id while the conversation of the WhatsApp sender is stored
C26_Witness ==
    /\ ident.op = "updateUserInfo"
    /\ IdentifiersOfType(ident.conv, "website_session") # <<>>
    /\ ~IdentifiersOfType(ident.conv, "website_session")[1].verified
    /\ IdentifiersOfType(ident.conv, "user_id") # <<>>
    /\ \E c \in ConvIds :
          /\ Stored(c)
          /\ IdentifiersOfType(c, "whatsapp_phone") # <<>>
          /\ IdentifiersOfType(c, "whatsapp_phone")[1].verified

(***************************************************************************)
(* Claims about the fallbacks and the follow-up request of                 *)
(* processFunctionCalls (SpecDriver).                                      *)
(***************************************************************************)
\* the turn has its reply text: extractResponseText has run
HasResponseText == drv.pc \in {"addAssistant", "updateResponseId", "done"}

\* the replies of the handlers' catch blocks
HandlerErrors == {WebError, WaError}

\* C27: (a) when the follow-up request fails, the reply text of the turn is
\* the apology of processFunctionCalls, and when the initial request fails
\* the reply is the error text of the handler; (b) when a createUser call
\* succeeded and the response to the follow-up holds no text besides white
\* space, the reply text is the acknowledgement, with the first name of the
\* new user when the result gave one.
C27_GuaranteedFallbacks ==
    /\ (drv.backendFailed = "followUp" /\ HasResponseText) =>
          /\ drv.responseText =
                <<"I experienced an error processing your request. Can you please try again?">>
          /\ \A i \in 1..Len(drv.replies) :
                drv.replies[i].message \in {drv.responseText} \cup HandlerErrors
          /\ drv.channel = "website" => drv.replies[1].message = drv.responseText
    /\ drv.backendFailed = "initial" =>
          /\ drv.pc = "done"
          /\ Len(drv.replies) = 1
          /\ drv.replies[1].message \in HandlerErrors
    /\ (/\ drv.backendFailed = "none"
        /\ HasResponseText
        /\ HasUserCreation(drv.settled)
        /\ ~HasOutputText(drv.finalOutput)) =>
          /\ drv.responseText =
                IF \E i \in 1..Len(drv.settled) : drv.settled[i].result = "createdNamed"
                THEN <<"Thank you, ", FirstName, "! I've successfully created your profile.",
                       " How else can I assist you today?">>
                ELSE <<"Thank you! I've successfully created your profile.",
                       " How else can I assist you today?">>
          /\ \A i \in 1..Len(drv.replies) :
                drv.replies[i].message \in {drv.responseText} \cup HandlerErrors

\* a WhatsApp turn has ended with the acknowledgement by name: createUser
\* succeeded and the response to the follow-up held white space only
C27_Witness ==
    /\ drv.pc = "done"
    /\ drv.channel = "whatsapp"
    /\ drv.backendFailed = "none"
    /\ \E i \in 1..Len(drv.settled) : drv.settled[i].result = "createdNamed"
    /\ drv.finalOutput = <<MessageItem(<<" ">>)>>
    /\ drv.replies # <<>>
    /\ drv.replies[Len(drv.replies)].message =
          <<"Thank you, ", FirstName, "! I've successfully created your profile.",
            " How else can I assist you today?">>

\* what follows the call/result pairs in the input of a follow-up request
AfterPairs(input) ==
    SubSeq(input, Len(InitialInput) + 2 * Len(drv.intents) + 1, Len(input))

\* a system_instruction was found in a tool result
DirectiveExtracted ==
    \E i \in 1..Len(drv.settled) : drv.settled[i].result = "instruction"

\* C28: the input of the follow-up request is the input of the initial
\* request, then for each intent its function_call item immediately followed
\* by its function_call_output item, then system turns only, the last of
\* them the directive taken from the tool results, then the user turn that
\* asks to continue; directive and user turn are there exactly when a tool
\* result held a directive.
C28_FollowUpInputOrder ==
    \A r \in 1..Len(drv.requests) : drv.requests[r].kind = "followUp" =>
        LET input == drv.requests[r].input
            n0 == Len(InitialInput)
            k == Len(drv.intents)
            rest == AfterPairs(input)
        IN /\ Len(input) >= n0 + 2 * k
           /\ SubSeq(input, 1, n0) = InitialInput
           /\ \A i \in 1..k :
                 /\ input[n0 + 2 * i - 1].type = "function_call"
                 /\ input[n0 + 2 * i - 1].call_id = drv.intents[i].call_id
                 /\ input[n0 + 2 * i].type = "function_call_output"
                 /\ input[n0 + 2 * i].call_id = drv.intents[i].call_id
           /\ DirectiveExtracted =>
                 /\ Len(rest) >= 2
                 /\ rest[Len(rest)].type = "user"
                 /\ rest[Len(rest) - 1] = RoleItem("system", <<"instruction">>)
                 /\ \A i \in 1..(Len(rest) - 1) : rest[i].type = "system"
           /\ ~DirectiveExtracted =>
                 \A i \in 1..Len(rest) : rest[i].type = "system"

(***************************************************************************)
(* Claim about the limit of a knowledge base search (SpecTool).            *)
(***************************************************************************)
\* the limit the arguments of the call give
GivenLimit == tool.arguments.value.limit

\* v is an integer between 1 and 20
IsAllowedLimit(v) == v.t = "number" /\ v.integer /\ v.n >= 1 /\ v.n <= 20

\* C29: a queryKnowledgeBase call whose arguments give a limit that is not
\* an integer between 1 and 20 is rejected before the handler runs, and the
\* search of the knowledge base only ever runs with an integer limit between
\* 1 and 20.
C29_KnowledgeSearchLimitCapped ==
    /\ (/\ tool.pc # "idle"
        /\ tool.name = "queryKnowledgeBase"
        /\ tool.arguments.json = "object"
        /\ GivenLimit.t # "undefined"
        /\ ~IsAllowedLimit(GivenLimit)) =>
          /\ ~tool.handlerRan
          /\ ~tool.searched
          /\ tool.pc = "returned"
          /\ tool.result.code = "INVALID_TOOL_ARGUMENTS"
    /\ tool.searched => IsAllowedLimit(tool.limit)

\* a search has run with the highest limit allowed
C29_Witness ==
    /\ tool.pc = "returned"
    /\ tool.name = "queryKnowledgeBase"
    /\ tool.searched
    /\ GivenLimit = Num(20)
    /\ tool.limit = Num(20)

(***************************************************************************)
(* Claim about the order of the merged messages (SpecMerge).               *)
(***************************************************************************)
\* the list mergeConversations sorts: the primary's messages, then the
\* candidates' messages
Concatenation == mergeLog.before \o mergeLog.candMsgs

\* the place of the i-th message of a list in its stable sort: after every
\* message of an earlier timestamp and after the messages of its own
\* timestamp that precede it in the list
Rank(msgs, i) ==
    Cardinality({l \in 1..Len(msgs) : msgs[l].timestamp < msgs[i].timestamp})
    + Cardinality({l \in 1..i : msgs[l].timestamp = msgs[i].timestamp})

\* C30: the messages of a persisted merge are those of the concatenation
\* primary-then-candidates, each at the place the stable sort by timestamp
\* gives it: of two messages the one that comes first in the concatenation
\* and is not later than the other comes first in the result. So messages of
\* equal timestamps keep the order of the concatenation, and the messages of
\* one conversation, whose timestamps never decrease, keep their order.
C30_MergeSortIsStable ==
    mergeLog.persisted =>
        /\ Len(mergeLog.result) = Len(Concatenation)
        /\ \A i \in 1..Len(Concatenation) :
              mergeLog.result[Rank(Concatenation, i)] = Concatenation[i]
        /\ \A i \in 1..Len(Concatenation) : \A j \in 1..Len(Concatenation) :
              (i < j /\ Concatenation[i].timestamp <= Concatenation[j].timestamp) =>
                  Rank(Concatenation, i) < Rank(Concatenation, j)

\* a merge was persisted whose primary and candidate each held a message of
\* the same timestamp; the primary's message comes first
C30_Witness ==
    /\ mergeLog.persisted
    /\ Len(mergeLog.before) = 1 /\ Len(mergeLog.candMsgs) = 1
    /\ mergeLog.before[1].timestamp = mergeLog.candMsgs[1].timestamp
    /\ mergeLog.before[1].id > mergeLog.candMsgs[1].id
    /\ mergeLog.result = <<mergeLog.before[1], mergeLog.candMsgs[1]>>

(***************************************************************************)
(* Claims about the suffix a phone lookup matches on (Spec).               *)
(***************************************************************************)
\* the identifier type the lookup of turn t searches, and the number it
\* takes the match digits of
LookupType(t) == IF turns[t].kind = "wa" THEN "phone" ELSE "whatsapp_phone"

LookupPhone(t) == IF turns[t].kind = "wa" THEN WaPhone ELSE turns[t].phone

\* both numbers have nine digits or more and the same last nine
AgreeOnLastNine(a, b) ==
    /\ Len(Digits(a)) >= MatchLength
    /\ Len(Digits(b)) >= MatchLength
    /\ SliceLast(Digits(a), MatchLength) = SliceLast(Digits(b), MatchLength)

\* the merge of turn t has saved its primary
MergeCarriedOut(t) == turns[t].pc = "mergeDelete" \/ turns[t].deleted # {}

\* C31: conversations are merged through a phone lookup (the tool
\* searchPreviousConversations or the WhatsApp auto-merge) only when the
\* number looked up and a phone identifier of every merged conversation
\* agree on the last nine digits; a number of fewer than nine digits never
\* causes a merge on a shorter suffix.
C31_MergeOnlyOnLastNineDigits ==
    \A t \in TurnIds :
        MergeCarriedOut(t) =>
            \A i \in 1..Len(turns[t].cands) :
                \E k \in 1..Len(turns[t].cands[i].doc.identifiers) :
                    /\ turns[t].cands[i].doc.identifiers[k].type = LookupType(t)
                    /\ AgreeOnLastNine(turns[t].cands[i].doc.identifiers[k].value,
                                       LookupPhone(t))

(***************************************************************************)
(* Claims about the conversations of one inbound identifier (Spec).        *)
(***************************************************************************)
\* the identifiers inbound turns carry: the WhatsApp sender's number and
\* the identifier of the browser session
InboundIdentifiers == {TurnIdentifier(kind) : kind \in {"wa", "web"}}

\* C32: for every interleaving of inbound turns that carry the same (type,
\* value) identifier, two first messages of one sender processed
\* concurrently included, a conversation is created only when none matches,
\* so the store never holds two conversations with that identifier.
C32_OneConversationPerIdentifier ==
    \A id \in InboundIdentifiers : Cardinality(FindByIdentifier(id[1], id[2])) <= 1

(***************************************************************************)
(* Claims about a session whose conversation a merge deleted (Spec).       *)
(***************************************************************************)
\* turn t of the browser session started when the session referenced a
\* conversation that is no longer stored
SessionConversationDeleted(t) ==
    /\ turns[t].kind = "web"
    /\ turns[t].pc \in {"findByIdentifier", "create"}
    /\ turns[t].conv # 0

\* the conversation the session references is no longer stored
SessionReferencesDeleted ==
    session.conversationId # 0 /\ ~Stored(session.conversationId)

\* what Conversation.findByIdentifier finds for the session's identifier
SessionMatches == FindByIdentifier(SessionIdentifier[1], SessionIdentifier[2])

\* C33: after a merge has deleted the conversation a session references,
\* the next getOrCreateConversation of the session returns the merged
\* primary without creating a conversation: a stored conversation holds the
\* session's identifier for findByIdentifier to return, and no turn that
\* started with the deleted id goes on to create a conversation.
C33_DeletedSessionResolvesToPrimary ==
    /\ SessionReferencesDeleted => SessionMatches # {}
    /\ \A t \in TurnIds : SessionConversationDeleted(t) => turns[t].pc # "create"

(***************************************************************************)
(* Claims about the userInfo of a merged primary (SpecIdent).              *)
(***************************************************************************)
\* the userInfo the primary of the last merge holds
UserInfoAfter == store[ident.conv].userInfo

\* the candidates of the last merge that have a userId
WithUserId == {i \in 1..Len(ident.candUserInfos) : ident.candUserInfos[i].userId # <<>>}

\* C34: a mergeConversations call that persisted leaves the primary its own
\* userInfo, unless the primary had no userId and a candidate has one, and
\* then the primary holds the userInfo of a candidate that has a userId; a
\* primary that had a userId keeps its userInfo.
C34_MergeAdoptsUserInfoOnlyWithoutUserId ==
    (ident.op = "merge" /\ ident.persisted) =>
        IF ident.userInfo.userId = <<>> /\ WithUserId # {}
        THEN \E i \in WithUserId : UserInfoAfter = ident.candUserInfos[i]
        ELSE UserInfoAfter = ident.userInfo

\* a primary that has a userId has been merged with a candidate that has a
\* userId and another userInfo, and has kept its own
C34_Witness ==
    /\ ident.op = "merge" /\ ident.persisted
    /\ ident.userInfo.userId # <<>>
    /\ \E i \in WithUserId : ident.candUserInfos[i] # ident.userInfo
    /\ UserInfoAfter = ident.userInfo

(***************************************************************************)
(* SpecPhone: calls of generatePhoneVariations on numbers as users type    *)
(* them, and on the variations it returns.                                 *)
(***************************************************************************)
\* digits after the prefix of a number
MaxBodyDigits == 11

phoneOthers ==
    <<store, clock, nextMsgId, nextConvId, mergeLog, merges, turnVars, drv, tool, ctx,
      ident, sum>>

\* what a number begins with: nothing, the trunk 0, a country code
Prefixes ==
    {<<>>, <<"0">>, <<"+", "4", "4">>, <<"+", "1">>, <<"+", "3", "3">>}

BodyDigits == <<"7", "9", "1", "1", "1", "2", "3", "4", "5", "6">>

\* n digits; a formatted number has a space after the fourth
Body(n, formatted) ==
    LET digits == [i \in 1..n |-> BodyDigits[((i - 1) % Len(BodyDigits)) + 1]]
    IN IF formatted /\ n > 4
       THEN SubSeq(digits, 1, 4) \o <<" ">> \o SubSeq(digits, 5, n)
       ELSE digits

PhoneInputs ==
    {prefix \o Body(n, formatted) :
        prefix \in Prefixes, n \in 0..MaxBodyDigits, formatted \in BOOLEAN}

\* phone.startsWith(prefix)
StartsWith(phone, prefix) ==
    Len(phone) >= Len(prefix) /\ SubSeq(phone, 1, Len(prefix)) = prefix

\* phone.substring(n)
Substring(phone, n) == SubSeq(phone, n + 1, Len(phone))

\* variations.push(v) under a condition
PushIf(cond, variations, v) == IF cond THEN Append(variations, v) ELSE variations

\* [...new Set(variations)]: the first occurrence of every value, in order
RECURSIVE Distinct(_, _)
Distinct(seen, variations) ==
    IF variations = <<>> THEN seen
    ELSE Distinct(IF \E k \in 1..Len(seen) : seen[k] = Head(variations)
                  THEN seen ELSE Append(seen, Head(variations)),
                  Tail(variations))

\* the number after the country code without the trunk 0
WithoutCountryCode(phone) == Substring(phone, 3)

\* '0' + phone.substring(3)
NationalForm(phone) == <<"0">> \o Substring(phone, 3)

\* '+44' + cleaned.substring(1)
Plus44Form(cleaned) == <<"+", "4", "4">> \o Substring(cleaned, 1)

\* generatePhoneVariations(phone)
GeneratePhoneVariations(phone) ==
    LET cleaned == Digits(phone)
        v1 == PushIf(cleaned # phone, <<phone>>, cleaned)
        v2 == PushIf(~StartsWith(phone, <<"+">>)
                     /\ StartsWith(cleaned, <<"0">>) /\ Len(cleaned) = 11,
                     v1, Plus44Form(cleaned))
        v3 == PushIf(~StartsWith(phone, <<"+">>) /\ Len(cleaned) = 10,
                     v2, <<"+", "1">> \o cleaned)
        v4 == PushIf(StartsWith(phone, <<"+", "4", "4">>) /\ Len(phone) > 3,
                     v3, NationalForm(phone))
        v5 == PushIf(StartsWith(phone, <<"+", "1">>) /\ Len(phone) > 2,
                     v4, Substring(phone, 2))
    IN Distinct(<<>>, v5)

InitPhone == InitStore /\ InitTurns

\* generatePhoneVariations is called on a number
PvGenerate(phone) ==
    /\ pv' = [pc |-> "generated", phone |-> phone, from |-> <<>>,
              variations |-> GeneratePhoneVariations(phone)]
    /\ UNCHANGED phoneOthers

\* generatePhoneVariations is called on a variation it returned
PvGenerateOfVariation(k) ==
    /\ pv.pc # "idle"
    /\ k \in 1..Len(pv.variations)
    /\ pv.variations[k] # pv.phone
    /\ pv' = [pc |-> "regenerated", phone |-> pv.variations[k], from |-> pv.phone,
              variations |-> GeneratePhoneVariations(pv.variations[k])]
    /\ UNCHANGED phoneOthers

NextPhone ==
    \/ \E phone \in PhoneInputs : PvGenerate(phone)
    \/ \E k \in 1..Len(pv.variations) : PvGenerateOfVariation(k)

SpecPhone == InitPhone /\ [][NextPhone]_vars

(***************************************************************************)
(* Claims about generatePhoneVariations.                                   *)
(***************************************************************************)
Values(variations) == {variations[k] : k \in 1..Len(variations)}

\* a number of eleven digits with leading 0 and no country code
IsNational(phone) ==
    /\ ~StartsWith(phone, <<"+">>)
    /\ StartsWith(Digits(phone), <<"0">>)
    /\ Len(Digits(phone)) = 11

\* C35: generatePhoneVariations returns its input and no value twice; the
\* variations of a number of 11 digits with leading 0 contain its +44 form,
\* and the variations of that +44 form contain the national form with
\* leading 0.
C35_PhoneVariationsSymmetric ==
    pv.pc # "idle" =>
        /\ Cardinality(Values(pv.variations)) = Len(pv.variations)
        /\ pv.phone \in Values(pv.variations)
        /\ IsNational(pv.phone) =>
              Plus44Form(Digits(pv.phone)) \in Values(pv.variations)
        /\ (pv.pc = "regenerated" /\ IsNational(pv.from)
            /\ pv.phone = Plus44Form(Digits(pv.from))) =>
              Digits(pv.from) \in Values(pv.variations)

\* the variations of 07911123456 held +447911123456, and the variations of
\* +447911123456 hold 07911123456
C35_Witness ==
    /\ pv.pc = "regenerated"
    /\ pv.from = WebPhone
    /\ pv.phone = WaPhone
    /\ WebPhone \in Values(pv.variations)

(***************************************************************************)
(* SpecDriverFair: the turn of SpecDriver when every awaited call of the   *)
(* store, of the backend and of a tool eventually returns or throws, so    *)
(* that the handler takes its next step whenever it has one.               *)
(***************************************************************************)
SpecDriverFair == SpecDriver /\ WF_vars(NextDriver)

\* the states of a turn: the initial request is out, tool calls are
\* pending, the follow-up request is out, the handler has returned
Sent == drv.pc = "processMessage"

AwaitingTools ==
    drv.pc = "tools" /\ \E i \in 1..Len(drv.results) : drv.results[i] = PendingEntry

FollowUpSent ==
    drv.pc = "tools" /\ \A i \in 1..Len(drv.results) : drv.results[i] # PendingEntry

Done == drv.pc = "done"

\* C36: every turn that processWhatsAppMessage or processWebSocketMessage
\* has started eventually reaches DONE, and so stays in none of SENT,
\* AWAITING_TOOLS and FOLLOW_UP_SENT for ever; tool calls are awaited only
\* after the initial request, and the follow-up request only after them.
C36_EveryTurnReachesDone ==
    /\ (drv.pc # "idle") ~> Done
    /\ Sent ~> (Done \/ AwaitingTools \/ FollowUpSent)
    /\ AwaitingTools ~> FollowUpSent
    /\ FollowUpSent ~> Done
    /\ [][/\ drv'.pc = "tools" => (Sent \/ drv.pc = "tools")
          /\ (FollowUpSent /\ drv'.pc # drv.pc) => ~Sent' /\ drv'.pc # "tools"]_vars

\* a turn has ended after tool calls and a follow-up request
C36_Witness ==
    /\ Done
    /\ drv.intents # <<>>
    /\ Len(drv.requests) = 2

(***************************************************************************)
(* Claims about the user message in the input of the request               *)
(* (SpecContext).                                                          *)
(***************************************************************************)
\* the turn the user message of this turn makes in an input
CurrentUserTurn == [role |-> "user", content |-> ctx.message]

\* how often the user message of this turn occurs in the input
Occurrences(input) == Cardinality({k \in 1..Len(input) : input[k] = CurrentUserTurn})

\* C37: the user message of the turn is the last item of the input of the
\* request and occurs in it exactly once: it is not also among the history
\* messages taken from the conversation it was appended to.
C37_UserMessageOnceAndLast ==
    ctx.pc = "sent" =>
        /\ ctx.input[Len(ctx.input)] = CurrentUserTurn
        /\ Occurrences(ctx.input) = 1

(***************************************************************************)
(* Claims about what addMessage and the steps outside a merge leave        *)
(* alone (Spec).                                                           *)
(***************************************************************************)
\* turn t takes the step of sessionManager.addMessage and it does not throw
AppendStep(t) ==
    /\ InAppend(t)
    /\ turns'[t] # turns[t]
    /\ turns'[t].pc # "failed"

\* a turn takes the save or the deleteMany of mergeConversations
MergeStep ==
    \E t \in TurnIds : turns[t].pc \in {"mergeSave", "mergeDelete"} /\ turns'[t] # turns[t]

\* the list before is the beginning of the list after
IsPrefix(before, after) ==
    Len(before) <= Len(after) /\ SubSeq(after, 1, Len(before)) = before

TerminalFrames ==
    {k \in 1..Len(drv.replies) : drv.replies[k].type \in {"chat_response", "error"}}

\* C39: a turn of processWebSocketMessage sends the client exactly one
\* terminal message, a chat_response or an error, wherever a store or
\* backend call of the turn fails: never two while it runs, and one when it
\* has ended.
C39_OneTerminalFramePerTurn ==
    drv.channel = "website" =>
        /\ Cardinality(TerminalFrames) <= 1
        /\ drv.pc = "done" => Cardinality(TerminalFrames) = 1

====
